---- MODULE Spec2Model ----
(***************************************************************************)
(* Model of the key provider (keyring) of LumenRTC's vendored libwebrtc    *)
(* wrapper: DefaultKeyProviderImpl in rtc_frame_cryptor_impl.{h,cc}.       *)
(*                                                                         *)
(* Every public method is modelled statement by statement: a caller thread *)
(* invokes it (Call...), takes the lock_guard where the source takes one,  *)
(* performs each map access as its own step and returns.  Spec runs one    *)
(* caller (sequential call histories); ConcSpec runs NumThreads callers    *)
(* that interleave at every statement; SetterSpec is the scenario of N     *)
(* concurrent SetKey calls on pairwise disjoint slots.                     *)
(*                                                                         *)
(* RTCFrameCryptorImpl (same files) is modelled the same way, with one     *)
(* record of fields and one mutex per frame cryptor and the reference      *)
(* counts of the keyring, the cryptors and the observers.  FcSpec runs one *)
(* caller of two frame cryptors that the application makes and releases,   *)
(* FcConcSpec concurrent callers of one frame cryptor, MutatorSpec the     *)
(* mutators of both classes, LiveSpec both classes under fair scheduling.  *)
(***************************************************************************)
EXTENDS Integers, Sequences, FiniteSets, TLC

\* ---------------------------------------------------------------- bounds
NumThreads == 2
MaxCalls == 3
MaxConcCalls == 2
MaxFcCalls == 3
MaxFcConcCalls == 3
MaxMutatorCalls == 2
MaxLiveCalls == 2
MaxRotationCalls == 4

Threads == 1..NumThreads
SeqThreads == {1}
Participants == {"", "alice"}
Indices == {-1, 0}
Keys == {<< >>, <<1>>, <<2>>}
Trailers == {<< >>, <<7>>}
Slots == Participants \X Indices
Cryptors == {"c1", "c2"}
Observers == {"o1", "o2"}

\* What an unsynchronised read of a map that is being written may yield besides
\* a stored key: a torn or dangling value.
Garbage == <<-1>>
NoThread == 0
EmptyMap == [x \in {} |-> << >>]
\* A null scoped_refptr.
None == "null"

VARIABLES
  shared_key_,        \* bool shared_key_
  shared_keys_,       \* map<int, vector<uint8_t>>
  participant_keys_,  \* map<string, map<int, vector<uint8_t>>>
  sif_trailer_,       \* vector<uint8_t>
  mutex_,             \* std::mutex: the thread holding it, or NoThread
  pc,                 \* per thread: the statement it is at
  op,                 \* per thread: the public method it called last
  arg,                \* per thread: the arguments of that call
  retBytes,           \* per thread: the vector<uint8_t> it returned
  retBool,            \* per thread: the bool it returned
  calls,              \* number of calls made so far
  setKeyHist,         \* history: slot -> key of the last returned SetKey
  setSharedHist,      \* history: index -> key of the last returned SetSharedKey
  overwritten,        \* history: slots whose key was replaced by a different one
  admissible,         \* history: per thread in ExportKey, what ExportKey yields on
                      \* each keyring state since the call was made
  plan,               \* SetterSpec: the slot and key each thread is to set
  kp_refs,            \* the keyring's reference count (RefCountedObject)
  fc_refs,            \* per frame cryptor: its reference count, 0 when there is none
  variant,            \* per frame cryptor: the factory function that made it
  enabled_,           \* per frame cryptor: bool enabled_
  key_index_,         \* per frame cryptor: int key_index_
  observer_,          \* per frame cryptor: scoped_refptr<RTCFrameCryptorObserver>
  fc_mutex_,          \* per frame cryptor: its std::mutex
  obs_refs,           \* per observer: the references frame cryptors hold to it
  fcArg,              \* per thread: the arguments of its frame cryptor call
  retInt,             \* per thread: the int it returned
  local_observer,     \* per thread: the observer a notification copied
  fcHist,             \* history: per frame cryptor, the values its setters stored
  stale,              \* history: per thread, the observers its notification must
                      \* not reach
  options,            \* the KeyProviderOptions* KeyProvider::Create was given:
                      \* << >> for nullptr, <<b>> for {shared_key = b}
  sinks_,             \* LocalAudioSource: std::vector<AudioTrackSinkInterface*>
  sink_lock_,         \* LocalAudioSource: the thread holding webrtc::Mutex sink_lock_
  sinkArg,            \* per thread: the sink of its AddSink or RemoveSink, or the
                      \* sink its OnData is calling
  cursor,             \* per thread: the position of its OnData in sinks_
  delivered,          \* history: per thread, how often its OnData called each sink
  lastSinkOp,         \* history: per sink, the last of AddSink and RemoveSink that
                      \* went through the list for it
  holder,             \* the wrapper's callback holder: its class, or g_log_callback
  cb_mutex_,          \* the holder: the thread holding its std::mutex
  callbacks_,         \* the holder: its callback table
  user_data_,         \* the holder: its void* user_data
  log_sink_,          \* whether LrtcLogMessageHandler is installed as the log sink
  cbArg,              \* per thread: the table and user_data of its SetCallbacks
  snapshot,           \* per thread: the table and user_data its dispatch copied
  nested,             \* per thread: "in" while its callback is inside a call of
                      \* SetCallbacks, "done" after that call returned
  setCalls,           \* history: the arguments SetCallbacks was called with
  cleared,            \* history: a SetCallbacks with a null table has returned and
                      \* no SetCallbacks with a table was running or was called
                      \* since that one was called
  silent              \* history: per thread, its dispatch started when cleared
                      \* held, or its SetCallbacks with a null table was called when
                      \* none with a table was running, and none with a table was
                      \* called since

keyring == <<shared_key_, shared_keys_, participant_keys_, sif_trailer_>>
histv == <<setKeyHist, setSharedHist, overwritten, admissible>>
cryptors == <<fc_refs, variant, enabled_, key_index_, observer_, fc_mutex_, obs_refs>>
fcthread == <<fcArg, retInt, local_observer, fcHist, stale>>
\* What no keyring method touches.
audio == <<sinks_, sink_lock_, sinkArg, cursor, delivered, lastSinkOp>>
wrapper == <<holder, cb_mutex_, callbacks_, user_data_, log_sink_, cbArg, snapshot,
             nested, setCalls, cleared, silent>>
others == <<options, audio, wrapper>>
rest == <<plan, kp_refs, cryptors, fcthread, others>>
vars == <<shared_key_, shared_keys_, participant_keys_, sif_trailer_, mutex_,
          pc, op, arg, retBytes, retBool, calls,
          setKeyHist, setSharedHist, overwritten, admissible, rest>>

NoArg == [p |-> "alice", i |-> 0, k |-> << >>]
NoFcArg == [c |-> "c1", b |-> FALSE, i |-> 0, o |-> None]
NoHist == [en |-> {}, ki |-> {}, lastEn |-> << >>, lastKi |-> << >>, obs |-> None,
           was |-> {}]

\* ------------------------------------------------------------ std::map
\* m[k] = v
MapPut(m, k, v) == [x \in (DOMAIN m) \cup {k} |-> IF x = k THEN v ELSE m[x]]

\* ------------------------------------------------- the methods' statements
\* Mutant: storing the empty key erases the slot.
SetSharedKeyStoreEmptyErases(m, i, k) ==
  IF k = << >> THEN [x \in (DOMAIN m) \ {i} |-> m[x]] ELSE MapPut(m, i, k)

\* shared_keys_[index] = std::move(key)
SetSharedKeyStore(m, i, k) == MapPut(m, i, k)

\* Mutant: the participant's map is replaced by one that holds only the new key.
SetKeyStoreReplacesMap(pk, p, i, k) == MapPut(pk, p, MapPut(EmptyMap, i, k))

\* Mutant: the key is stored after it was moved from (an empty vector).
SetKeyStoreMovedFrom(pk, p, i, k) ==
  MapPut(pk, p, MapPut(IF p \in DOMAIN pk THEN pk[p] ELSE EmptyMap, i, << >>))

\* Mutant: the key is appended to the slot's bytes instead of replacing them.
SetKeyStoreAppend(pk, p, i, k) ==
  MapPut(pk, p,
         MapPut(IF p \in DOMAIN pk THEN pk[p] ELSE EmptyMap, i,
                IF p \in DOMAIN pk /\ i \in DOMAIN pk[p] THEN pk[p][i] \o k ELSE k))

\* participant_keys_[participant_id][index] = std::move(key)
SetKeyStore(pk, p, i, k) ==
  MapPut(pk, p, MapPut(IF p \in DOMAIN pk THEN pk[p] ELSE EmptyMap, i, k))

\* Mutant: lower_bound(key_index) instead of find(key_index).
ExportSharedKeyLowerBound(m, i) ==
  IF \A x \in DOMAIN m : x < i THEN << >>
  ELSE m[CHOOSE x \in DOMAIN m : x >= i /\ \A y \in DOMAIN m : y >= i => x <= y]

\* Mutant: begin() instead of find(key_index).
ExportSharedKeyFirst(m, i) ==
  IF DOMAIN m = {} THEN << >>
  ELSE m[CHOOSE x \in DOMAIN m : \A y \in DOMAIN m : x <= y]

\* find(key_index); end() ? {} : it->second
ExportSharedKeyValue(m, i) == IF i \in DOMAIN m THEN m[i] ELSE << >>

\* Mutant: the fallback is taken whatever shared_key_ is.
AlwaysFallback(flag) == TRUE

\* shared_key_ ? ExportSharedKey(key_index) : vector<uint8_t>()
UsesFallback(flag) == flag

\* ExportKey as a function of one keyring state
ExportKeyValue(pk, sk, flag, p, i) ==
  IF p \in DOMAIN pk /\ i \in DOMAIN pk[p]
  THEN pk[p][i]
  ELSE IF UsesFallback(flag) THEN ExportSharedKeyValue(sk, i) ELSE << >>

\* Mutant: the ratchet derives a new key from the exported one.
RatchetDerive(v) == v \o <<1>>

\* return ExportKey(participant_id, key_index) / return ExportSharedKey(key_index)
RatchetReturn(v) == v

\* The map a statement accesses and whether it writes it.
Accessed(l) ==
  CASE l = "ssk_write" -> <<"shared_keys_", TRUE>>
    [] l = "esk_find" -> <<"shared_keys_", FALSE>>
    [] l = "sk_write" -> <<"participant_keys_", TRUE>>
    [] l = "ek_find_p" -> <<"participant_keys_", FALSE>>
    [] l = "ek_find_k" -> <<"participant_keys_", FALSE>>
    [] l = "sst_write" -> <<"sif_trailer_", TRUE>>
    [] OTHER -> <<"none", FALSE>>

InMapAccess(t) == Accessed(pc[t])[1] # "none"

\* Thread t, at a map access, overlaps another thread's access to the same map
\* and one of the two writes: a data race.
Racing(t) ==
  \E u \in Threads \ {t} :
    /\ Accessed(pc[u])[1] = Accessed(pc[t])[1]
    /\ Accessed(pc[t])[1] # "none"
    /\ (Accessed(pc[u])[2] \/ Accessed(pc[t])[2])

\* Both accesses write: the container itself is corrupted.
WriteRacing(t) ==
  \E u \in Threads \ {t} :
    /\ Accessed(pc[u])[1] = Accessed(pc[t])[1]
    /\ Accessed(pc[t])[2] /\ Accessed(pc[u])[2]

Release(t) == IF mutex_ = t THEN NoThread ELSE mutex_

\* ------------------------------------------------------------------ Init
InitKeyring ==
  /\ shared_key_ \in BOOLEAN
  /\ shared_keys_ = EmptyMap
  /\ participant_keys_ = EmptyMap
  /\ sif_trailer_ = << >>
  /\ mutex_ = NoThread
  /\ pc = [t \in Threads |-> "idle"]
  /\ op = [t \in Threads |-> "none"]
  /\ arg = [t \in Threads |-> NoArg]
  /\ retBytes = [t \in Threads |-> << >>]
  /\ retBool = [t \in Threads |-> FALSE]
  /\ calls = 0
  /\ setKeyHist = EmptyMap
  /\ setSharedHist = EmptyMap
  /\ overwritten = {}
  /\ admissible = [t \in Threads |-> {}]

\* No frame cryptor has been made yet; the application holds the one reference
\* KeyProvider::Create returned.
InitCryptors ==
  /\ kp_refs = 1
  /\ fc_refs = [c \in Cryptors |-> 0]
  /\ variant = [c \in Cryptors |-> "none"]
  /\ enabled_ = [c \in Cryptors |-> FALSE]
  /\ key_index_ = [c \in Cryptors |-> 0]
  /\ observer_ = [c \in Cryptors |-> None]
  /\ fc_mutex_ = [c \in Cryptors |-> NoThread]
  /\ obs_refs = [o \in Observers |-> 0]
  /\ fcArg = [t \in Threads |-> NoFcArg]
  /\ retInt = [t \in Threads |-> 0]
  /\ local_observer = [t \in Threads |-> None]
  /\ fcHist = [c \in Cryptors |-> NoHist]
  /\ stale = [t \in Threads |-> {}]

\* Mutant: a keyring made without options is in shared-key mode.
CtorSharedKeyNullIsTrue(o) == o = << >> \/ o[1]

\* shared_key_(options != nullptr && options->shared_key)
CtorSharedKey(o) == o # << >> /\ o[1]

\* LocalAudioSource() = default: no sink, the lock free.
Sinks == {"s1", "s2"}
NoSink == "null"
NoDelivery == [s \in Sinks |-> 0]
InitAudio ==
  /\ sinks_ = << >>
  /\ sink_lock_ = NoThread
  /\ sinkArg = [t \in Threads |-> NoSink]
  /\ cursor = [t \in Threads |-> 0]
  /\ delivered = [t \in Threads |-> NoDelivery]
  /\ lastSinkOp = [s \in Sinks |-> "none"]

\* The wrapper's callback holders.  A callback table is "null" when its entry
\* for the event is a null pointer.
Holders == {"PeerConnectionObserverImpl", "DataChannelObserverImpl",
            "DtmfSenderObserverImpl", "AudioSinkImpl", "VideoSinkImpl",
            "g_log_callback"}
NoCallbacks == [cb |-> None, ud |-> None]
\* callbacks_{}, user_data_ = nullptr; no log sink is installed.
InitWrapper(H) ==
  /\ holder \in H
  /\ cb_mutex_ = NoThread
  /\ callbacks_ = None
  /\ user_data_ = None
  /\ log_sink_ = FALSE
  /\ cbArg = [t \in Threads |-> NoCallbacks]
  /\ snapshot = [t \in Threads |-> NoCallbacks]
  /\ nested = [t \in Threads |-> "no"]
  /\ setCalls = {}
  /\ cleared = FALSE
  /\ silent = [t \in Threads |-> FALSE]

\* What is outside the two classes: the keyring was made with options that name
\* its mode.
InitOthers ==
  options = <<shared_key_>> /\ InitAudio /\ InitWrapper({"PeerConnectionObserverImpl"})

Init == InitKeyring /\ InitCryptors /\ plan = EmptyMap /\ InitOthers

\* ----------------------------------------------------------------- calls
InExportKey(t) == pc[t] # "idle" /\ op[t] \in {"ExportKey", "RatchetKey"}

\* History kept for the threads inside ExportKey when the keyring becomes (pk, sk).
Observed(pk, sk) ==
  [u \in Threads |->
     IF InExportKey(u)
     THEN admissible[u] \cup {ExportKeyValue(pk, sk, shared_key_, arg[u].p, arg[u].i)}
     ELSE admissible[u]]

Invoke(t, o, a, l) ==
  /\ pc[t] = "idle"
  /\ op' = [op EXCEPT ![t] = o]
  /\ arg' = [arg EXCEPT ![t] = a]
  /\ pc' = [pc EXCEPT ![t] = l]
  /\ admissible' = [admissible EXCEPT ![t] =
       IF o \in {"ExportKey", "RatchetKey"}
       THEN {ExportKeyValue(participant_keys_, shared_keys_, shared_key_, a.p, a.i)}
       ELSE {}]
  /\ calls' = calls + 1
  /\ UNCHANGED <<keyring, mutex_, retBytes, retBool,
                 setKeyHist, setSharedHist, overwritten, rest>>

\* std::lock_guard<std::mutex> lock(mutex_)
Acquire(t, from, to) ==
  /\ pc[t] = from
  /\ mutex_ = NoThread
  /\ mutex_' = t
  /\ pc' = [pc EXCEPT ![t] = to]
  /\ UNCHANGED <<keyring, op, arg, retBytes, retBool, calls, histv, rest>>

\* What the called method hands back: the ratchet methods return the callee's value.
Result(t, v) == IF op[t] \in {"RatchetKey", "RatchetSharedKey"} THEN RatchetReturn(v) ELSE v

\* The method returns: its lock_guard, if it has one, is destroyed and the caller
\* consumes the result.
Return(t) ==
  /\ pc[t] = "ret"
  /\ mutex_' = Release(t)
  /\ pc' = [pc EXCEPT ![t] = "idle"]
  /\ op' = [op EXCEPT ![t] = "none"]
  /\ arg' = [arg EXCEPT ![t] = NoArg]
  /\ retBytes' = [retBytes EXCEPT ![t] = << >>]
  /\ retBool' = [retBool EXCEPT ![t] = FALSE]
  /\ admissible' = [admissible EXCEPT ![t] = {}]
  /\ UNCHANGED <<keyring, calls, setKeyHist, setSharedHist, overwritten, rest>>

\* bool SetSharedKey(int index, vector<uint8_t> key)
CallSetSharedKey(t, cap) ==
  /\ calls < cap
  /\ \E i \in Indices, k \in Keys :
       Invoke(t, "SetSharedKey", [p |-> "alice", i |-> i, k |-> k], "ssk_lock")

SetSharedKeyLock(t) == Acquire(t, "ssk_lock", "ssk_write")

SetSharedKeyWrite(t) ==
  /\ pc[t] = "ssk_write"
  /\ \/ shared_keys_' = SetSharedKeyStore(shared_keys_, arg[t].i, arg[t].k)
     \/ WriteRacing(t) /\ shared_keys_' = shared_keys_
  /\ retBool' = [retBool EXCEPT ![t] = TRUE]
  /\ pc' = [pc EXCEPT ![t] = "ret"]
  /\ setSharedHist' = MapPut(setSharedHist, arg[t].i, arg[t].k)
  /\ overwritten' =
       IF arg[t].i \in DOMAIN setSharedHist /\ setSharedHist[arg[t].i] # arg[t].k
       THEN overwritten \cup {<<"shared", arg[t].i>>} ELSE overwritten
  /\ admissible' = Observed(participant_keys_, shared_keys_')
  /\ UNCHANGED <<shared_key_, participant_keys_, sif_trailer_, mutex_, op, arg,
                 retBytes, calls, setKeyHist, rest>>

\* bool SetKey(const string participant_id, int index, vector<uint8_t> key)
CallSetKey(t, cap) ==
  /\ calls < cap
  /\ \E p \in Participants, i \in Indices, k \in Keys :
       Invoke(t, "SetKey", [p |-> p, i |-> i, k |-> k], "sk_lock")

\* Mutant: SetKey without its lock_guard.
SetKeyNoLock(t) ==
  /\ pc[t] = "sk_lock"
  /\ pc' = [pc EXCEPT ![t] = "sk_write"]
  /\ UNCHANGED <<keyring, mutex_, op, arg, retBytes, retBool, calls, histv, rest>>

SetKeyLock(t) == Acquire(t, "sk_lock", "sk_write")

SetKeyWrite(t) ==
  /\ pc[t] = "sk_write"
  /\ \/ participant_keys_' =
          SetKeyStore(participant_keys_, arg[t].p, arg[t].i, arg[t].k)
     \/ WriteRacing(t) /\ participant_keys_' = participant_keys_
  /\ retBool' = [retBool EXCEPT ![t] = TRUE]
  /\ pc' = [pc EXCEPT ![t] = "ret"]
  /\ setKeyHist' = MapPut(setKeyHist, <<arg[t].p, arg[t].i>>, arg[t].k)
  /\ overwritten' =
       IF /\ <<arg[t].p, arg[t].i>> \in DOMAIN setKeyHist
          /\ setKeyHist[<<arg[t].p, arg[t].i>>] # arg[t].k
       THEN overwritten \cup {<<arg[t].p, arg[t].i>>} ELSE overwritten
  /\ admissible' = Observed(participant_keys_', shared_keys_)
  /\ UNCHANGED <<shared_key_, shared_keys_, sif_trailer_, mutex_, op, arg,
                 retBytes, calls, setSharedHist, rest>>

\* void SetSifTrailer(vector<uint8_t> trailer)
CallSetSifTrailer(t, cap) ==
  /\ calls < cap
  /\ \E k \in Trailers :
       Invoke(t, "SetSifTrailer", [p |-> "alice", i |-> 0, k |-> k], "sst_lock")

SetSifTrailerLock(t) == Acquire(t, "sst_lock", "sst_write")

\* Mutant: the trailer is appended to the stored one.
SetSifTrailerWriteAppend(t) ==
  /\ pc[t] = "sst_write"
  /\ sif_trailer_' = sif_trailer_ \o arg[t].k
  /\ pc' = [pc EXCEPT ![t] = "ret"]
  /\ UNCHANGED <<shared_key_, shared_keys_, participant_keys_, mutex_, op, arg,
                 retBytes, retBool, calls, histv, rest>>

\* sif_trailer_ = std::move(trailer)
SetSifTrailerWrite(t) ==
  /\ pc[t] = "sst_write"
  /\ sif_trailer_' = arg[t].k
  /\ pc' = [pc EXCEPT ![t] = "ret"]
  /\ UNCHANGED <<shared_key_, shared_keys_, participant_keys_, mutex_, op, arg,
                 retBytes, retBool, calls, histv, rest>>

\* vector<uint8_t> ExportSharedKey(int key_index): no lock_guard of its own
CallExportSharedKey(t, cap) ==
  /\ calls < cap
  /\ \E i \in Indices :
       Invoke(t, "ExportSharedKey", [p |-> "alice", i |-> i, k |-> << >>], "esk_find")

\* vector<uint8_t> RatchetSharedKey(int key_index)
CallRatchetSharedKey(t, cap) ==
  /\ calls < cap
  /\ \E i \in Indices :
       Invoke(t, "RatchetSharedKey", [p |-> "alice", i |-> i, k |-> << >>], "esk_find")

\* The find of ExportSharedKey, called directly, through RatchetSharedKey, or as
\* the fallback of ExportKey (which then still holds the mutex).  A find that
\* races with a write of shared_keys_ may yield anything.
ExportSharedKeyFind(t) ==
  /\ pc[t] = "esk_find"
  /\ \E v \in Keys \cup {Garbage} :
       /\ \/ v = ExportSharedKeyValue(shared_keys_, arg[t].i)
          \/ Racing(t)
       /\ retBytes' = [retBytes EXCEPT ![t] = Result(t, v)]
  /\ pc' = [pc EXCEPT ![t] = "ret"]
  /\ UNCHANGED <<keyring, mutex_, op, arg, retBool, calls, histv, rest>>

\* vector<uint8_t> ExportKey(const string participant_id, int key_index)
CallExportKey(t, cap) ==
  /\ calls < cap
  /\ \E p \in Participants, i \in Indices :
       Invoke(t, "ExportKey", [p |-> p, i |-> i, k |-> << >>], "ek_lock")

\* vector<uint8_t> RatchetKey(const string participant_id, int key_index)
CallRatchetKey(t, cap) ==
  /\ calls < cap
  /\ \E p \in Participants, i \in Indices :
       Invoke(t, "RatchetKey", [p |-> p, i |-> i, k |-> << >>], "ek_lock")

\* Mutant: ExportKey without its lock_guard.
ExportKeyNoLock(t) ==
  /\ pc[t] = "ek_lock"
  /\ pc' = [pc EXCEPT ![t] = "ek_find_p"]
  /\ UNCHANGED <<keyring, mutex_, op, arg, retBytes, retBool, calls, histv, rest>>

ExportKeyLock(t) == Acquire(t, "ek_lock", "ek_find_p")

\* Mutant: ExportSharedKey takes the keyring's lock_guard itself, so on the
\* fallback path the caller waits for the non-recursive mutex it already holds.
ExportKeyMissRelock(t) ==
  IF UsesFallback(shared_key_)
  THEN /\ pc' = [pc EXCEPT ![t] = "esk_lock"]
       /\ UNCHANGED retBytes
  ELSE /\ pc' = [pc EXCEPT ![t] = "ret"]
       /\ retBytes' = [retBytes EXCEPT ![t] = Result(t, << >>)]

\* The statement after a failed lookup: the shared-key fallback or {}.
ExportKeyMiss(t) ==
  IF UsesFallback(shared_key_)
  THEN /\ pc' = [pc EXCEPT ![t] = "esk_find"]
       /\ UNCHANGED retBytes
  ELSE /\ pc' = [pc EXCEPT ![t] = "ret"]
       /\ retBytes' = [retBytes EXCEPT ![t] = Result(t, << >>)]

\* Mutant: in shared-key mode the shared key is looked up first.
ExportKeySharedFirst(t) ==
  /\ pc[t] = "ek_find_p"
  /\ IF shared_key_ /\ arg[t].i \in DOMAIN shared_keys_
     THEN pc' = [pc EXCEPT ![t] = "esk_find"] /\ UNCHANGED retBytes
     ELSE \/ /\ arg[t].p \in DOMAIN participant_keys_
             /\ pc' = [pc EXCEPT ![t] = "ek_find_k"]
             /\ UNCHANGED retBytes
          \/ /\ arg[t].p \notin DOMAIN participant_keys_
             /\ ExportKeyMiss(t)
  /\ UNCHANGED <<keyring, mutex_, op, arg, retBool, calls, histv, rest>>

\* participant_keys_.find(participant_id)
ExportKeyFindParticipant(t) ==
  /\ pc[t] = "ek_find_p"
  /\ \/ /\ arg[t].p \in DOMAIN participant_keys_
        /\ pc' = [pc EXCEPT ![t] = "ek_find_k"]
        /\ UNCHANGED retBytes
     \/ /\ arg[t].p \notin DOMAIN participant_keys_ \/ Racing(t)
        /\ ExportKeyMiss(t)
  /\ UNCHANGED <<keyring, mutex_, op, arg, retBool, calls, histv, rest>>

\* Mutant: a participant that has keys, but none at key_index, gets {} and
\* no fallback.
ExportKeyFindKeyNoFallback(t) ==
  /\ pc[t] = "ek_find_k"
  /\ pc' = [pc EXCEPT ![t] = "ret"]
  /\ retBytes' = [retBytes EXCEPT ![t] =
       IF arg[t].i \in DOMAIN participant_keys_[arg[t].p]
       THEN Result(t, participant_keys_[arg[t].p][arg[t].i])
       ELSE Result(t, << >>)]
  /\ UNCHANGED <<keyring, mutex_, op, arg, retBool, calls, histv, rest>>

\* Mutant: an empty participant key is treated as a missing one.
ExportKeyFindKeyEmptyIsMissing(t) ==
  /\ pc[t] = "ek_find_k"
  /\ \/ /\ arg[t].p \in DOMAIN participant_keys_
        /\ arg[t].i \in DOMAIN participant_keys_[arg[t].p]
        /\ participant_keys_[arg[t].p][arg[t].i] # << >>
        /\ pc' = [pc EXCEPT ![t] = "ret"]
        /\ retBytes' = [retBytes EXCEPT ![t] =
             Result(t, participant_keys_[arg[t].p][arg[t].i])]
     \/ /\ \/ arg[t].p \notin DOMAIN participant_keys_
           \/ arg[t].i \notin DOMAIN participant_keys_[arg[t].p]
           \/ /\ arg[t].i \in DOMAIN participant_keys_[arg[t].p]
              /\ participant_keys_[arg[t].p][arg[t].i] = << >>
           \/ Racing(t)
        /\ ExportKeyMiss(t)
     \/ /\ Racing(t)
        /\ pc' = [pc EXCEPT ![t] = "ret"]
        /\ retBytes' = [retBytes EXCEPT ![t] = Garbage]
  /\ UNCHANGED <<keyring, mutex_, op, arg, retBool, calls, histv, rest>>

\* keys.find(key_index) on the participant's map
ExportKeyFindKey(t) ==
  /\ pc[t] = "ek_find_k"
  /\ \/ /\ arg[t].p \in DOMAIN participant_keys_
        /\ arg[t].i \in DOMAIN participant_keys_[arg[t].p]
        /\ pc' = [pc EXCEPT ![t] = "ret"]
        /\ retBytes' = [retBytes EXCEPT ![t] =
             Result(t, participant_keys_[arg[t].p][arg[t].i])]
     \/ /\ \/ arg[t].p \notin DOMAIN participant_keys_
           \/ arg[t].i \notin DOMAIN participant_keys_[arg[t].p]
           \/ Racing(t)
        /\ ExportKeyMiss(t)
     \/ /\ Racing(t)
        /\ pc' = [pc EXCEPT ![t] = "ret"]
        /\ retBytes' = [retBytes EXCEPT ![t] = Garbage]
  /\ UNCHANGED <<keyring, mutex_, op, arg, retBool, calls, histv, rest>>

\* ------------------------------------------------------ RTCFrameCryptorImpl
\* What no frame cryptor method touches.
keyringside == <<keyring, mutex_, arg, retBytes, histv, plan, kp_refs, others>>

\* Mutant: the constructor starts the cryptor enabled.
CtorStateEnabled == [enabled |-> TRUE, key_index |-> 0, observer |-> None]

\* : participant_id_(participant_id), enabled_(false), key_index_(0); observer_ is
\* a default-constructed scoped_refptr
CtorState == [enabled |-> FALSE, key_index |-> 0, observer |-> None]

\* Whether the constructors keep the key_provider they are given: they cast it to
\* void, and the class has no member to hold it.
StoresKeyProvider == FALSE

\* References to the keyring held by frame cryptors.
KeptByCryptors ==
  IF StoresKeyProvider THEN Cardinality({c \in Cryptors : fc_refs[c] > 0}) ELSE 0

\* The application still holds the reference KeyProvider::Create returned.
AppHoldsKeyProvider == kp_refs > KeptByCryptors

\* Both constructors: the initialiser list, then every other argument is discarded.
Construct(c, v) ==
  /\ fc_refs[c] = 0
  /\ variant[c] = "none"
  /\ AppHoldsKeyProvider
  /\ fc_refs' = [fc_refs EXCEPT ![c] = 1]
  /\ variant' = [variant EXCEPT ![c] = v]
  /\ enabled_' = [enabled_ EXCEPT ![c] = CtorState.enabled]
  /\ key_index_' = [key_index_ EXCEPT ![c] = CtorState.key_index]
  /\ observer_' = [observer_ EXCEPT ![c] = CtorState.observer]
  /\ kp_refs' = IF StoresKeyProvider THEN kp_refs + 1 ELSE kp_refs
  /\ UNCHANGED <<keyring, mutex_, arg, retBytes, histv, plan, others, pc, op, retBool,
                 calls,
                 fc_mutex_, obs_refs, fcthread>>

\* RTCFrameCryptorFactory::frameCryptorFromRtpSender
frameCryptorFromRtpSender(c) == Construct(c, "sender")

\* RTCFrameCryptorFactory::frameCryptorFromRtpReceiver
frameCryptorFromRtpReceiver(c) == Construct(c, "receiver")

\* scoped_refptr assignment: the new referent gains a reference, the old one
\* loses one.
RefAssign(refs, old, new) ==
  [o \in DOMAIN refs |->
     refs[o] + (IF o = new THEN 1 ELSE 0) - (IF o = old THEN 1 ELSE 0)]

\* The application drops its reference to the keyring; the keyring is destroyed
\* when that was the last one.
ReleaseKeyProvider ==
  /\ AppHoldsKeyProvider
  /\ \A t \in Threads : pc[t] = "idle"
  /\ kp_refs' = kp_refs - 1
  /\ UNCHANGED <<keyring, mutex_, arg, retBytes, histv, plan, others, pc, op, retBool,
                 calls,
                 cryptors, fcthread>>

\* The application drops its reference to a frame cryptor: ~RTCFrameCryptorImpl
\* destroys the members.
ReleaseFrameCryptor(c) ==
  /\ fc_refs[c] = 1
  /\ \A t \in Threads : pc[t] = "idle"
  /\ fc_refs' = [fc_refs EXCEPT ![c] = 0]
  /\ observer_' = [observer_ EXCEPT ![c] = None]
  /\ obs_refs' = RefAssign(obs_refs, observer_[c], None)
  /\ kp_refs' = IF StoresKeyProvider THEN kp_refs - 1 ELSE kp_refs
  /\ UNCHANGED <<keyring, mutex_, arg, retBytes, histv, plan, others, pc, op, retBool,
                 calls,
                 variant, enabled_, key_index_, fc_mutex_, fcthread>>

\* A caller that holds a reference to the cryptor calls one of its methods.
FcInvoke(t, o, a, l) ==
  /\ pc[t] = "idle"
  /\ fc_refs[a.c] > 0
  /\ op' = [op EXCEPT ![t] = o]
  /\ fcArg' = [fcArg EXCEPT ![t] = a]
  /\ pc' = [pc EXCEPT ![t] = l]
  /\ calls' = calls + 1
  /\ UNCHANGED <<keyringside, cryptors, retBool, retInt, local_observer, fcHist>>

\* std::lock_guard<std::mutex> lock(mutex_) on the cryptor's own mutex
FcAcquire(t, from, to) ==
  /\ pc[t] = from
  /\ fc_mutex_[fcArg[t].c] = NoThread
  /\ fc_mutex_' = [fc_mutex_ EXCEPT ![fcArg[t].c] = t]
  /\ pc' = [pc EXCEPT ![t] = to]
  /\ UNCHANGED <<keyringside, op, retBool, calls, fc_refs, variant, enabled_,
                 key_index_, observer_, obs_refs, fcthread>>

FcRelease(t) == [c \in Cryptors |-> IF fc_mutex_[c] = t THEN NoThread ELSE fc_mutex_[c]]

\* The method returns: its lock_guard is destroyed and the caller consumes the
\* result.
FcReturn(t) ==
  /\ pc[t] = "fc_ret"
  /\ fc_mutex_' = FcRelease(t)
  /\ pc' = [pc EXCEPT ![t] = "idle"]
  /\ op' = [op EXCEPT ![t] = "none"]
  /\ fcArg' = [fcArg EXCEPT ![t] = NoFcArg]
  /\ retBool' = [retBool EXCEPT ![t] = FALSE]
  /\ retInt' = [retInt EXCEPT ![t] = 0]
  /\ UNCHANGED <<keyringside, calls, fc_refs, variant, enabled_, key_index_,
                 observer_, obs_refs, local_observer, fcHist, stale>>

\* Mutant: enabled_ |= enabled, the flag is never cleared.
SetEnabledStoreSticky(en, c, b) == [en EXCEPT ![c] = en[c] \/ b]

\* Mutant: the flag is shared by all frame cryptors (a static member).
SetEnabledStoreShared(en, c, b) == [x \in DOMAIN en |-> b]

\* enabled_ = enabled
SetEnabledStore(en, c, b) == [en EXCEPT ![c] = b]

\* Mutant: a negative index is rejected and nothing is stored.
SetKeyIndexStoreNonNegative(ki, c, i) == IF i < 0 THEN ki ELSE [ki EXCEPT ![c] = i]

\* key_index_ = index
SetKeyIndexStore(ki, c, i) == [ki EXCEPT ![c] = i]

\* Mutant: an observer is only taken when none is held.
RegisterStoreFirst(obs, c, o) == IF obs[c] = None THEN [obs EXCEPT ![c] = o] ELSE obs

\* observer_ = observer
RegisterStore(obs, c, o) == [obs EXCEPT ![c] = o]

\* Mutant: de-registration leaves the reference in place.
DeRegisterStoreKeeps(obs, c) == obs

\* observer_ = nullptr
DeRegisterStore(obs, c) == [obs EXCEPT ![c] = None]

\* bool SetEnabled(bool enabled)
CallSetEnabled(t, cap) ==
  /\ calls < cap
  /\ \E c \in Cryptors, b \in BOOLEAN :
       /\ FcInvoke(t, "SetEnabled", [NoFcArg EXCEPT !.c = c, !.b = b], "se_lock")
       /\ UNCHANGED stale

SetEnabledLock(t) == FcAcquire(t, "se_lock", "se_write")

\* Mutant: SetEnabled also resets the key index.
SetEnabledWriteResets(t) ==
  /\ pc[t] = "se_write"
  /\ enabled_' = SetEnabledStore(enabled_, fcArg[t].c, fcArg[t].b)
  /\ key_index_' = [key_index_ EXCEPT ![fcArg[t].c] = 0]
  /\ retBool' = [retBool EXCEPT ![t] = TRUE]
  /\ pc' = [pc EXCEPT ![t] = "fc_ret"]
  /\ fcHist' = [fcHist EXCEPT ![fcArg[t].c].en = @ \cup {fcArg[t].b},
                              ![fcArg[t].c].lastEn = <<fcArg[t].b>>]
  /\ UNCHANGED <<keyringside, op, calls, fc_refs, variant, observer_,
                 fc_mutex_, obs_refs, fcArg, retInt, local_observer, stale>>

SetEnabledWrite(t) ==
  /\ pc[t] = "se_write"
  /\ enabled_' = SetEnabledStore(enabled_, fcArg[t].c, fcArg[t].b)
  /\ retBool' = [retBool EXCEPT ![t] = TRUE]
  /\ pc' = [pc EXCEPT ![t] = "fc_ret"]
  /\ fcHist' = [fcHist EXCEPT ![fcArg[t].c].en = @ \cup {fcArg[t].b},
                              ![fcArg[t].c].lastEn = <<fcArg[t].b>>]
  /\ UNCHANGED <<keyringside, op, calls, fc_refs, variant, key_index_, observer_,
                 fc_mutex_, obs_refs, fcArg, retInt, local_observer, stale>>

\* bool enabled() const
CallEnabled(t, cap) ==
  /\ calls < cap
  /\ \E c \in Cryptors :
       /\ FcInvoke(t, "enabled", [NoFcArg EXCEPT !.c = c], "en_lock")
       /\ UNCHANGED stale

EnabledLock(t) == FcAcquire(t, "en_lock", "en_read")

EnabledRead(t) ==
  /\ pc[t] = "en_read"
  /\ retBool' = [retBool EXCEPT ![t] = enabled_[fcArg[t].c]]
  /\ pc' = [pc EXCEPT ![t] = "fc_ret"]
  /\ UNCHANGED <<keyringside, op, calls, cryptors, fcthread>>

\* bool SetKeyIndex(int index)
CallSetKeyIndex(t, cap) ==
  /\ calls < cap
  /\ \E c \in Cryptors, i \in Indices :
       /\ FcInvoke(t, "SetKeyIndex", [NoFcArg EXCEPT !.c = c, !.i = i], "ski_lock")
       /\ UNCHANGED stale

SetKeyIndexLock(t) == FcAcquire(t, "ski_lock", "ski_write")

SetKeyIndexWrite(t) ==
  /\ pc[t] = "ski_write"
  /\ key_index_' = SetKeyIndexStore(key_index_, fcArg[t].c, fcArg[t].i)
  /\ retBool' = [retBool EXCEPT ![t] = TRUE]
  /\ pc' = [pc EXCEPT ![t] = "fc_ret"]
  /\ fcHist' = [fcHist EXCEPT ![fcArg[t].c].ki = @ \cup {fcArg[t].i},
                              ![fcArg[t].c].lastKi = <<fcArg[t].i>>]
  /\ UNCHANGED <<keyringside, op, calls, fc_refs, variant, enabled_, observer_,
                 fc_mutex_, obs_refs, fcArg, retInt, local_observer, stale>>

\* int key_index() const
CallKeyIndex(t, cap) ==
  /\ calls < cap
  /\ \E c \in Cryptors :
       /\ FcInvoke(t, "key_index", [NoFcArg EXCEPT !.c = c], "ki_lock")
       /\ UNCHANGED stale

KeyIndexLock(t) == FcAcquire(t, "ki_lock", "ki_read")

KeyIndexRead(t) ==
  /\ pc[t] = "ki_read"
  /\ retInt' = [retInt EXCEPT ![t] = key_index_[fcArg[t].c]]
  /\ pc' = [pc EXCEPT ![t] = "fc_ret"]
  /\ UNCHANGED <<keyringside, op, calls, retBool, cryptors, fcArg, local_observer,
                 fcHist, stale>>

\* The notifications in flight on cryptor c may reach an observer registered
\* after they started.
Fresh(c, o) ==
  [u \in Threads |->
     IF op[u] = "Notify" /\ fcArg[u].c = c THEN stale[u] \ {o} ELSE stale[u]]

\* void RegisterRTCFrameCryptorObserver(scoped_refptr<RTCFrameCryptorObserver>)
CallRegisterObserver(t, cap) ==
  /\ calls < cap
  /\ \E c \in Cryptors, o \in Observers :
       /\ FcInvoke(t, "Register", [NoFcArg EXCEPT !.c = c, !.o = o], "reg_lock")
       /\ UNCHANGED stale

RegisterObserverLock(t) == FcAcquire(t, "reg_lock", "reg_write")

RegisterObserverWrite(t) ==
  /\ pc[t] = "reg_write"
  /\ observer_' = RegisterStore(observer_, fcArg[t].c, fcArg[t].o)
  /\ obs_refs' = RefAssign(obs_refs, observer_[fcArg[t].c], observer_'[fcArg[t].c])
  /\ pc' = [pc EXCEPT ![t] = "fc_ret"]
  /\ fcHist' = [fcHist EXCEPT ![fcArg[t].c].obs = fcArg[t].o,
                              ![fcArg[t].c].was = @ \cup {fcArg[t].o}]
  /\ stale' = Fresh(fcArg[t].c, fcArg[t].o)
  /\ UNCHANGED <<keyringside, op, calls, retBool, fc_refs, variant, enabled_,
                 key_index_, fc_mutex_, fcArg, retInt, local_observer>>

\* void DeRegisterRTCFrameCryptorObserver()
CallDeRegisterObserver(t, cap) ==
  /\ calls < cap
  /\ \E c \in Cryptors :
       /\ FcInvoke(t, "DeRegister", [NoFcArg EXCEPT !.c = c], "dereg_lock")
       /\ UNCHANGED stale

DeRegisterObserverLock(t) == FcAcquire(t, "dereg_lock", "dereg_write")

DeRegisterObserverWrite(t) ==
  /\ pc[t] = "dereg_write"
  /\ observer_' = DeRegisterStore(observer_, fcArg[t].c)
  /\ obs_refs' = RefAssign(obs_refs, observer_[fcArg[t].c], observer_'[fcArg[t].c])
  /\ pc' = [pc EXCEPT ![t] = "fc_ret"]
  /\ fcHist' = [fcHist EXCEPT ![fcArg[t].c].obs = None]
  /\ UNCHANGED <<keyringside, op, calls, retBool, fc_refs, variant, enabled_,
                 key_index_, fc_mutex_, fcArg, retInt, local_observer, stale>>

\* The engine's notification path: it copies the observer reference under the
\* cryptor's lock and calls the observer after the lock is released.  A
\* notification that starts while no observer is registered must reach none of
\* the observers registered before (stale).
CallNotify(t, cap) ==
  /\ calls < cap
  /\ \E c \in Cryptors :
       /\ FcInvoke(t, "Notify", [NoFcArg EXCEPT !.c = c], "n_lock")
       /\ stale' = [stale EXCEPT ![t] =
            IF fcHist[c].obs = None THEN fcHist[c].was ELSE {}]

NotifyLock(t) == FcAcquire(t, "n_lock", "n_copy")

NotifyCopy(t) ==
  /\ pc[t] = "n_copy"
  /\ local_observer' = [local_observer EXCEPT ![t] = observer_[fcArg[t].c]]
  /\ fc_mutex_' = FcRelease(t)
  /\ pc' = [pc EXCEPT ![t] = "n_invoke"]
  /\ UNCHANGED <<keyringside, op, calls, retBool, fc_refs, variant, enabled_,
                 key_index_, observer_, obs_refs, fcArg, retInt, fcHist, stale>>

NotifyInvoke(t) ==
  /\ pc[t] = "n_invoke"
  /\ pc' = [pc EXCEPT ![t] = "idle"]
  /\ op' = [op EXCEPT ![t] = "none"]
  /\ fcArg' = [fcArg EXCEPT ![t] = NoFcArg]
  /\ local_observer' = [local_observer EXCEPT ![t] = None]
  /\ stale' = [stale EXCEPT ![t] = {}]
  /\ UNCHANGED <<keyringside, calls, retBool, cryptors, retInt, fcHist>>

FcStep(t, cap) ==
  \/ CallSetEnabled(t, cap) \/ SetEnabledLock(t) \/ SetEnabledWrite(t)
  \/ CallEnabled(t, cap) \/ EnabledLock(t) \/ EnabledRead(t)
  \/ CallSetKeyIndex(t, cap) \/ SetKeyIndexLock(t) \/ SetKeyIndexWrite(t)
  \/ CallKeyIndex(t, cap) \/ KeyIndexLock(t) \/ KeyIndexRead(t)
  \/ CallRegisterObserver(t, cap) \/ RegisterObserverLock(t) \/ RegisterObserverWrite(t)
  \/ CallDeRegisterObserver(t, cap) \/ DeRegisterObserverLock(t)
  \/ DeRegisterObserverWrite(t)
  \/ CallNotify(t, cap) \/ NotifyLock(t) \/ NotifyCopy(t) \/ NotifyInvoke(t)
  \/ FcReturn(t)

Lifecycle ==
  \/ \E c \in Cryptors : frameCryptorFromRtpSender(c)
  \/ \E c \in Cryptors : frameCryptorFromRtpReceiver(c)
  \/ \E c \in Cryptors : ReleaseFrameCryptor(c)
  \/ ReleaseKeyProvider

\* ------------------------------------------------------- specifications
Step(t, cap) ==
  \/ CallSetSharedKey(t, cap) \/ SetSharedKeyLock(t) \/ SetSharedKeyWrite(t)
  \/ CallSetKey(t, cap) \/ SetKeyLock(t) \/ SetKeyWrite(t)
  \/ CallSetSifTrailer(t, cap) \/ SetSifTrailerLock(t) \/ SetSifTrailerWrite(t)
  \/ CallExportSharedKey(t, cap) \/ CallRatchetSharedKey(t, cap) \/ ExportSharedKeyFind(t)
  \/ CallExportKey(t, cap) \/ CallRatchetKey(t, cap) \/ ExportKeyLock(t)
  \/ ExportKeyFindParticipant(t) \/ ExportKeyFindKey(t)
  \/ Return(t)

\* One caller: sequential call histories.
Next == \E t \in SeqThreads : Step(t, MaxCalls)
Spec == Init /\ [][Next]_vars

\* NumThreads callers interleaving at every statement.
ConcNext == \E t \in Threads : Step(t, MaxConcCalls)
ConcSpec == Init /\ [][ConcNext]_vars

\* N threads call SetKey concurrently, each on a slot of its own; when all have
\* returned, the slots are exported.
PlanSlot(t) == <<plan[t].p, plan[t].i>>

Plans ==
  {f \in [Threads -> [p : Participants, i : Indices, k : Keys]] :
     \A t, u \in Threads : t # u => <<f[t].p, f[t].i>> # <<f[u].p, f[u].i>>}

SetterInit == InitKeyring /\ InitCryptors /\ plan \in Plans /\ InitOthers

SetterCallSetKey(t) ==
  /\ PlanSlot(t) \notin DOMAIN setKeyHist
  /\ Invoke(t, "SetKey", plan[t], "sk_lock")

AllSettersReturned ==
  \A u \in Threads : pc[u] = "idle" /\ PlanSlot(u) \in DOMAIN setKeyHist

SetterCallExportKey(t) ==
  /\ AllSettersReturned
  /\ calls < NumThreads + 1
  /\ \E u \in Threads :
       Invoke(t, "ExportKey", [p |-> plan[u].p, i |-> plan[u].i, k |-> << >>], "ek_lock")

SetterNext ==
  \E t \in Threads :
    \/ SetterCallSetKey(t) \/ SetKeyLock(t) \/ SetKeyWrite(t)
    \/ SetterCallExportKey(t) \/ ExportKeyLock(t)
    \/ ExportKeyFindParticipant(t) \/ ExportKeyFindKey(t)
    \/ Return(t)
SetterSpec == SetterInit /\ [][SetterNext]_vars

\* One caller of the frame cryptors, which the application makes and releases.
\* The keyring after SetSharedKey(0, <<1>>) and SetKey("alice", 0, <<2>>) returned.
InitProvisioned ==
  /\ shared_key_ = TRUE
  /\ shared_keys_ = SetSharedKeyStore(EmptyMap, 0, <<1>>)
  /\ participant_keys_ = SetKeyStore(EmptyMap, "alice", 0, <<2>>)
  /\ sif_trailer_ = << >>
  /\ mutex_ = NoThread
  /\ pc = [t \in Threads |-> "idle"]
  /\ op = [t \in Threads |-> "none"]
  /\ arg = [t \in Threads |-> NoArg]
  /\ retBytes = [t \in Threads |-> << >>]
  /\ retBool = [t \in Threads |-> FALSE]
  /\ calls = 0
  /\ setKeyHist = MapPut(EmptyMap, <<"alice", 0>>, <<2>>)
  /\ setSharedHist = MapPut(EmptyMap, 0, <<1>>)
  /\ overwritten = {}
  /\ admissible = [t \in Threads |-> {}]

FcInit == InitProvisioned /\ InitCryptors /\ plan = EmptyMap /\ InitOthers
FcNext == Lifecycle \/ \E t \in SeqThreads : FcStep(t, MaxFcCalls)
FcSpec == FcInit /\ [][FcNext]_vars

\* The state after the application made the cryptors in C, the first from a
\* sender and the others from a receiver.
InitConstructed(C) ==
  /\ kp_refs = 1 + (IF StoresKeyProvider THEN Cardinality(C) ELSE 0)
  /\ fc_refs = [c \in Cryptors |-> IF c \in C THEN 1 ELSE 0]
  /\ variant = [c \in Cryptors |->
                  IF c \notin C THEN "none" ELSE IF c = "c1" THEN "sender" ELSE "receiver"]
  /\ enabled_ = [c \in Cryptors |-> CtorState.enabled]
  /\ key_index_ = [c \in Cryptors |-> CtorState.key_index]
  /\ observer_ = [c \in Cryptors |-> CtorState.observer]
  /\ fc_mutex_ = [c \in Cryptors |-> NoThread]
  /\ obs_refs = [o \in Observers |-> 0]
  /\ fcArg = [t \in Threads |-> NoFcArg]
  /\ retInt = [t \in Threads |-> 0]
  /\ local_observer = [t \in Threads |-> None]
  /\ fcHist = [c \in Cryptors |-> NoHist]
  /\ stale = [t \in Threads |-> {}]

\* Concurrent callers of one frame cryptor.
FcConcInit ==
  InitKeyring /\ ~shared_key_ /\ InitConstructed({"c1"}) /\ plan = EmptyMap /\ InitOthers
FcConcNext == \E t \in Threads : FcStep(t, MaxFcConcCalls)
FcConcSpec == FcConcInit /\ [][FcConcNext]_vars

\* One caller of the four mutators that report success, on a keyring and the
\* frame cryptors made with it.
MutatorInit == InitKeyring /\ InitConstructed(Cryptors) /\ plan = EmptyMap /\ InitOthers
MutatorNext ==
  \E t \in SeqThreads :
    \/ CallSetSharedKey(t, MaxMutatorCalls) \/ SetSharedKeyLock(t) \/ SetSharedKeyWrite(t)
    \/ CallSetKey(t, MaxMutatorCalls) \/ SetKeyLock(t) \/ SetKeyWrite(t)
    \/ Return(t)
    \/ CallSetEnabled(t, MaxMutatorCalls) \/ SetEnabledLock(t) \/ SetEnabledWrite(t)
    \/ CallSetKeyIndex(t, MaxMutatorCalls) \/ SetKeyIndexLock(t) \/ SetKeyIndexWrite(t)
    \/ FcReturn(t)
MutatorSpec == MutatorInit /\ [][MutatorNext]_vars

\* Two callers of a provisioned keyring and of a frame cryptor, under a scheduler
\* that lets every thread that can take a step take one eventually.  A thread
\* waiting for a mutex can take its step whenever the mutex is free.
LiveThreads == {1, 2}
LiveInit == InitProvisioned /\ InitConstructed({"c1"}) /\ plan = EmptyMap /\ InitOthers
\* A call of any method of either class.  Whether a call returns does not depend
\* on the bytes it carries, so the setters write one value each; the lookups take
\* every participant and index, which decide the path through ExportKey.
LiveCall(t) ==
  /\ calls < MaxLiveCalls
  /\ \/ Invoke(t, "SetSharedKey", [p |-> "alice", i |-> -1, k |-> <<1>>], "ssk_lock")
     \/ Invoke(t, "SetKey", [p |-> "", i |-> 0, k |-> <<2>>], "sk_lock")
     \/ Invoke(t, "SetSifTrailer", [p |-> "alice", i |-> 0, k |-> <<7>>], "sst_lock")
     \/ \E i \in Indices, o \in {"ExportSharedKey", "RatchetSharedKey"} :
          Invoke(t, o, [p |-> "alice", i |-> i, k |-> << >>], "esk_find")
     \/ \E p \in Participants, i \in Indices, o \in {"ExportKey", "RatchetKey"} :
          Invoke(t, o, [p |-> p, i |-> i, k |-> << >>], "ek_lock")
     \/ /\ \/ FcInvoke(t, "SetEnabled", [NoFcArg EXCEPT !.b = TRUE], "se_lock")
           \/ FcInvoke(t, "enabled", NoFcArg, "en_lock")
           \/ FcInvoke(t, "SetKeyIndex", [NoFcArg EXCEPT !.i = -1], "ski_lock")
           \/ FcInvoke(t, "key_index", NoFcArg, "ki_lock")
           \/ FcInvoke(t, "Register", [NoFcArg EXCEPT !.o = "o1"], "reg_lock")
           \/ FcInvoke(t, "DeRegister", NoFcArg, "dereg_lock")
        /\ UNCHANGED stale

\* The steps of a call in progress.
Advance(t) ==
  \/ SetSharedKeyLock(t) \/ SetSharedKeyWrite(t)
  \/ SetKeyLock(t) \/ SetKeyWrite(t)
  \/ SetSifTrailerLock(t) \/ SetSifTrailerWrite(t)
  \/ ExportSharedKeyFind(t)
  \/ ExportKeyLock(t) \/ ExportKeyFindParticipant(t) \/ ExportKeyFindKey(t)
  \/ Return(t)
  \/ SetEnabledLock(t) \/ SetEnabledWrite(t)
  \/ EnabledLock(t) \/ EnabledRead(t)
  \/ SetKeyIndexLock(t) \/ SetKeyIndexWrite(t)
  \/ KeyIndexLock(t) \/ KeyIndexRead(t)
  \/ RegisterObserverLock(t) \/ RegisterObserverWrite(t)
  \/ DeRegisterObserverLock(t) \/ DeRegisterObserverWrite(t)
  \/ FcReturn(t)

LiveNext == \E t \in LiveThreads : LiveCall(t) \/ Advance(t)
LiveSpec ==
  LiveInit /\ [][LiveNext]_vars /\ \A t \in LiveThreads : WF_vars(Advance(t))

\* One caller of a keyring made by KeyProvider::Create with any options.
CreateInit ==
  /\ options \in {<< >>, <<FALSE>>, <<TRUE>>}
  /\ shared_key_ = CtorSharedKey(options)
  /\ InitKeyring /\ InitCryptors /\ plan = EmptyMap /\ InitAudio
  /\ InitWrapper({"PeerConnectionObserverImpl"})
CreateSpec == CreateInit /\ [][Next]_vars

\* Key rotation.  The application thread provisions a non-empty key for the
\* participant and then announces its index on the participant's cryptor; the
\* pipeline threads read the index and export the key at it, as the engine's
\* per-frame hook does.  Slot (participant, 0) is provisioned before they start.
AppThread == CHOOSE t \in SeqThreads : TRUE
PipelineThreads == Threads \ {AppThread}
RotationParticipant == "alice"
RotationInit ==
  /\ shared_key_ \in BOOLEAN
  /\ shared_keys_ = EmptyMap
  /\ participant_keys_ = SetKeyStore(EmptyMap, RotationParticipant, 0, <<2>>)
  /\ sif_trailer_ = << >>
  /\ mutex_ = NoThread
  /\ pc = [t \in Threads |-> "idle"]
  /\ op = [t \in Threads |-> "none"]
  /\ arg = [t \in Threads |-> NoArg]
  /\ retBytes = [t \in Threads |-> << >>]
  /\ retBool = [t \in Threads |-> FALSE]
  /\ calls = 0
  /\ setKeyHist = MapPut(EmptyMap, <<RotationParticipant, 0>>, <<2>>)
  /\ setSharedHist = EmptyMap
  /\ overwritten = {}
  /\ admissible = [t \in Threads |-> {}]
  /\ InitConstructed({"c1"}) /\ plan = EmptyMap /\ InitOthers

\* The application calls SetKey(p, i, K) with a non-empty K.
AppSetKey(t) ==
  /\ calls < MaxRotationCalls
  /\ \E i \in Indices, k \in Keys \ {<< >>} :
       Invoke(t, "SetKey", [p |-> RotationParticipant, i |-> i, k |-> k], "sk_lock")

\* SetKey has returned: the application calls SetKeyIndex(i) for the same index.
AppSetKeyIndex(t) ==
  /\ pc[t] = "ret"
  /\ op[t] = "SetKey"
  /\ mutex_' = Release(t)
  /\ op' = [op EXCEPT ![t] = "SetKeyIndex"]
  /\ fcArg' = [fcArg EXCEPT ![t] = [NoFcArg EXCEPT !.c = "c1", !.i = arg[t].i]]
  /\ arg' = [arg EXCEPT ![t] = NoArg]
  /\ retBool' = [retBool EXCEPT ![t] = FALSE]
  /\ pc' = [pc EXCEPT ![t] = "ski_lock"]
  /\ calls' = calls + 1
  /\ UNCHANGED <<keyring, retBytes, histv, plan, kp_refs, others, cryptors, retInt,
                 local_observer, fcHist, stale>>

\* The pipeline calls key_index() on the participant's cryptor.
PipelineKeyIndex(t) ==
  /\ calls < MaxRotationCalls
  /\ FcInvoke(t, "key_index", [NoFcArg EXCEPT !.c = "c1"], "ki_lock")
  /\ UNCHANGED stale

\* key_index() has returned idx: the pipeline calls ExportKey(p, idx).
PipelineExportKey(t) ==
  /\ pc[t] = "fc_ret"
  /\ op[t] = "key_index"
  /\ fc_mutex_' = FcRelease(t)
  /\ op' = [op EXCEPT ![t] = "ExportKey"]
  /\ arg' = [arg EXCEPT ![t] = [p |-> RotationParticipant, i |-> retInt[t], k |-> << >>]]
  /\ fcArg' = [fcArg EXCEPT ![t] = NoFcArg]
  /\ retInt' = [retInt EXCEPT ![t] = 0]
  /\ pc' = [pc EXCEPT ![t] = "ek_lock"]
  /\ admissible' = [admissible EXCEPT ![t] =
       {ExportKeyValue(participant_keys_, shared_keys_, shared_key_,
                       RotationParticipant, retInt[t])}]
  /\ calls' = calls + 1
  /\ UNCHANGED <<keyring, mutex_, retBytes, retBool, setKeyHist, setSharedHist,
                 overwritten, plan, kp_refs, others, fc_refs, variant, enabled_,
                 key_index_, observer_, obs_refs, local_observer, fcHist, stale>>

RotationNext ==
  \/ AppSetKey(AppThread) \/ SetKeyLock(AppThread) \/ SetKeyWrite(AppThread)
  \/ AppSetKeyIndex(AppThread) \/ SetKeyIndexLock(AppThread)
  \/ SetKeyIndexWrite(AppThread) \/ FcReturn(AppThread)
  \/ \E t \in PipelineThreads :
       \/ PipelineKeyIndex(t) \/ KeyIndexLock(t) \/ KeyIndexRead(t)
       \/ PipelineExportKey(t) \/ ExportKeyLock(t) \/ ExportKeyFindParticipant(t)
       \/ ExportKeyFindKey(t) \/ Return(t)
RotationSpec == RotationInit /\ [][RotationNext]_vars

\* ---------------------------------------------------------------- claims
Returned(t, o) == pc[t] = "ret" /\ op[t] = o
ArgSlot(t) == <<arg[t].p, arg[t].i>>
Range(f) == {f[x] : x \in DOMAIN f}

\* C1: SetKey(p, i, k) followed by ExportKey(p, i), with no SetKey on (p, i) in
\* between, returns exactly k, in either shared-key mode and for the empty key too.
C1_SetKeyExportKeyRoundTrip ==
  \A t \in Threads :
    (Returned(t, "ExportKey") /\ ArgSlot(t) \in DOMAIN setKeyHist)
      => retBytes[t] = setKeyHist[ArgSlot(t)]

C1_Witness ==
  \E t \in Threads :
    /\ Returned(t, "ExportKey")
    /\ ArgSlot(t) \in DOMAIN setKeyHist
    /\ setKeyHist[ArgSlot(t)] = <<1>>
    /\ ~shared_key_

\* C2: SetSharedKey(i, k) followed by ExportSharedKey(i), with no SetSharedKey on
\* i in between, returns exactly k, whatever the shared_key_enabled flag.
C2_SetSharedKeyExportRoundTrip ==
  \A t \in Threads :
    (Returned(t, "ExportSharedKey") /\ arg[t].i \in DOMAIN setSharedHist)
      => retBytes[t] = setSharedHist[arg[t].i]

C2_Witness ==
  \E t \in Threads :
    /\ Returned(t, "ExportSharedKey")
    /\ arg[t].i \in DOMAIN setSharedHist
    /\ setSharedHist[arg[t].i] = <<2>>
    /\ <<"shared", arg[t].i>> \in overwritten
    /\ ~shared_key_

\* C3: without shared-key mode, ExportKey(p, i) of a slot never set by SetKey
\* returns the empty sequence, also when p has keys at other indices and a
\* non-empty shared key is stored at i.
C3_NoFallbackWhenDisabled ==
  \A t \in Threads :
    (~shared_key_ /\ Returned(t, "ExportKey") /\ ArgSlot(t) \notin DOMAIN setKeyHist)
      => retBytes[t] = << >>

C3_Witness ==
  \E t \in Threads :
    /\ ~shared_key_
    /\ Returned(t, "ExportKey")
    /\ ArgSlot(t) \notin DOMAIN setKeyHist
    /\ arg[t].p \in DOMAIN participant_keys_
    /\ arg[t].i \in DOMAIN shared_keys_
    /\ shared_keys_[arg[t].i] # << >>

\* C4: with shared-key mode and SetSharedKey(i, K) called, ExportKey(p, i) of a
\* slot never set by SetKey returns the current shared key at i, both when p has
\* no entry at all and when p has keys at other indices only.
C4_FallbackWhenEnabled ==
  \A t \in Threads :
    (/\ shared_key_
     /\ Returned(t, "ExportKey")
     /\ ArgSlot(t) \notin DOMAIN setKeyHist
     /\ arg[t].i \in DOMAIN setSharedHist)
      => retBytes[t] = setSharedHist[arg[t].i]

C4_Witness ==
  \E t \in Threads :
    /\ shared_key_
    /\ Returned(t, "ExportKey")
    /\ ArgSlot(t) \notin DOMAIN setKeyHist
    /\ arg[t].i \in DOMAIN setSharedHist
    /\ arg[t].p \in DOMAIN participant_keys_
    /\ retBytes[t] # << >>

\* C5: with shared-key mode, once SetKey(p, i, K1) was called ExportKey(p, i)
\* returns the participant key K1 and never the shared key, whatever shared keys
\* were set before or after.
C5_ParticipantKeyPrecedence ==
  \A t \in Threads :
    (shared_key_ /\ Returned(t, "ExportKey") /\ ArgSlot(t) \in DOMAIN setKeyHist)
      => /\ retBytes[t] = setKeyHist[ArgSlot(t)]
         /\ (/\ arg[t].i \in DOMAIN setSharedHist
             /\ setSharedHist[arg[t].i] # setKeyHist[ArgSlot(t)])
              => retBytes[t] # setSharedHist[arg[t].i]

C5_Witness ==
  \E t \in Threads :
    /\ shared_key_
    /\ Returned(t, "ExportKey")
    /\ ArgSlot(t) \in DOMAIN setKeyHist
    /\ arg[t].i \in DOMAIN setSharedHist
    /\ setSharedHist[arg[t].i] \notin {<< >>, setKeyHist[ArgSlot(t)]}

\* C6: last write wins per slot: a read of a provisioned participant slot returns
\* the key of the most recent SetKey on it, a read of a shared slot the key of the
\* most recent SetSharedKey, and no read returns a key that is no slot's current one.
C6_LastWriteWins ==
  \A t \in Threads :
    pc[t] = "ret" =>
      /\ (op[t] \in {"ExportKey", "RatchetKey"} /\ ArgSlot(t) \in DOMAIN setKeyHist)
           => retBytes[t] = setKeyHist[ArgSlot(t)]
      /\ (op[t] \in {"ExportSharedKey", "RatchetSharedKey"}
            /\ arg[t].i \in DOMAIN setSharedHist)
           => retBytes[t] = setSharedHist[arg[t].i]
      /\ op[t] \in {"ExportKey", "RatchetKey", "ExportSharedKey", "RatchetSharedKey"}
           => retBytes[t] \in {<< >>} \cup Range(setKeyHist) \cup Range(setSharedHist)

C6_Witness ==
  \E t \in Threads :
    /\ Returned(t, "ExportKey")
    /\ ArgSlot(t) \in overwritten

\* C7: ratchet is a pure passthrough: RatchetKey returns what ExportKey yields on
\* the keyring state, RatchetSharedKey what ExportSharedKey yields, and no step of
\* a ratchet call changes shared_keys, participant_keys, sif_trailer or
\* shared_key_enabled.
C7_RatchetValue ==
  \A t \in Threads :
    /\ Returned(t, "RatchetKey") =>
         retBytes[t] = ExportKeyValue(participant_keys_, shared_keys_, shared_key_,
                                      arg[t].p, arg[t].i)
    /\ Returned(t, "RatchetSharedKey") =>
         retBytes[t] = ExportSharedKeyValue(shared_keys_, arg[t].i)

C7_RatchetStep ==
  (\E t \in Threads : {op[t], op'[t]} \cap {"RatchetKey", "RatchetSharedKey"} # {})
    => UNCHANGED keyring

C7_RatchetPassthrough == [](C7_RatchetValue) /\ [][C7_RatchetStep]_vars

C7_Witness ==
  \E t \in Threads :
    /\ Returned(t, "RatchetKey")
    /\ shared_key_
    /\ ArgSlot(t) \notin DOMAIN setKeyHist
    /\ retBytes[t] # << >>

\* C8: every public keyring operation accesses the maps only while holding the
\* keyring's mutex, so no thread is inside an access of a map while another
\* thread is inside a write of the same map (ExportSharedKey and RatchetSharedKey
\* never read shared_keys while SetSharedKey writes it).
C8_MapAccessSerialized == \A t \in Threads : ~Racing(t)

\* C9: N threads call SetKey concurrently on pairwise disjoint slots: every call
\* returns true and, once all have returned, ExportKey of each slot returns the
\* key that slot's call stored.
C9_NoLostUpdate ==
  \A t \in Threads :
    /\ Returned(t, "SetKey") => retBool[t]
    /\ Returned(t, "ExportKey") =>
         \A u \in Threads : PlanSlot(u) = ArgSlot(t) => retBytes[t] = plan[u].k

C9_Witness ==
  \E t, u, v \in Threads :
    /\ Returned(t, "ExportKey")
    /\ u # v
    /\ plan[u].p = plan[v].p
    /\ PlanSlot(u) = ArgSlot(t)
    /\ retBytes[t] = plan[u].k
    /\ plan[u].k # << >>

\* C10: ExportKey is atomic with respect to concurrent setters: what it returns
\* is what ExportKey yields on one keyring state that existed between its call
\* and its return, hence the empty sequence or a stored key.
C10_ExportKeyAtomic ==
  \A t \in Threads :
    Returned(t, "ExportKey") =>
      /\ retBytes[t] \in admissible[t]
      /\ retBytes[t] \in Keys

C10_Witness ==
  \E t \in Threads :
    /\ Returned(t, "ExportKey")
    /\ Cardinality(admissible[t]) >= 2
    /\ retBytes[t] # << >>

FcReturned(t, o) == pc[t] = "fc_ret" /\ op[t] = o
Alive(c) == fc_refs[c] > 0

\* C11: a frame cryptor made by either factory function (from a sender or from a
\* receiver) is, until a setter has stored something, disabled, at key index 0
\* and without an observer: its fields say so, enabled() returns false and
\* key_index() returns 0.
C11_InitialState ==
  /\ \A c \in Cryptors :
       Alive(c) /\ variant[c] \in {"sender", "receiver"} /\ fcHist[c] = NoHist =>
         enabled_[c] = FALSE /\ key_index_[c] = 0 /\ observer_[c] = None
  /\ \A t \in Threads :
       /\ FcReturned(t, "enabled") /\ fcHist[fcArg[t].c] = NoHist => retBool[t] = FALSE
       /\ FcReturned(t, "key_index") /\ fcHist[fcArg[t].c] = NoHist => retInt[t] = 0

\* Both variants exist untouched, and enabled() has returned on the one made from
\* a receiver.
C11_Witness ==
  /\ \E c, d \in Cryptors :
       /\ Alive(c) /\ Alive(d)
       /\ variant[c] = "sender" /\ variant[d] = "receiver"
       /\ fcHist[c] = NoHist /\ fcHist[d] = NoHist
       /\ \E t \in Threads : FcReturned(t, "enabled") /\ fcArg[t].c = d

Last(h, default) == IF h = << >> THEN default ELSE h[1]
OthersIdle(t) == \A u \in Threads \ {t} : pc[u] = "idle"

\* C12: with SetEnabled, SetKeyIndex and the getters called concurrently on one
\* frame cryptor, every enabled() returns false or a value some SetEnabled was
\* given and every key_index() returns 0 or a value some SetKeyIndex was given;
\* when every other call has returned, enabled() returns the argument of the last
\* SetEnabled and key_index() the argument of the last SetKeyIndex.
C12_SettersLinearize ==
  \A t \in Threads :
    /\ FcReturned(t, "enabled") =>
         /\ retBool[t] \in {FALSE} \cup fcHist[fcArg[t].c].en
         /\ OthersIdle(t) => retBool[t] = Last(fcHist[fcArg[t].c].lastEn, FALSE)
    /\ FcReturned(t, "key_index") =>
         /\ retInt[t] \in {0} \cup fcHist[fcArg[t].c].ki
         /\ OthersIdle(t) => retInt[t] = Last(fcHist[fcArg[t].c].lastKi, 0)

\* SetEnabled(true) and then SetEnabled(false) have stored their values, every
\* other call has returned, and enabled() returns false.
C12_Witness ==
  \E t \in Threads :
    /\ FcReturned(t, "enabled")
    /\ OthersIdle(t)
    /\ fcHist[fcArg[t].c].en = {TRUE, FALSE}
    /\ fcHist[fcArg[t].c].lastEn = <<FALSE>>
    /\ retBool[t] = FALSE

\* C13: once DeRegisterRTCFrameCryptorObserver has cleared the observer, and
\* until the next registration, the frame cryptor holds no observer reference
\* (also when the de-registration directly follows the registration), so a
\* notification that starts in that period is delivered to none of the
\* observers registered before.
C13_NoDeliveryAfterDeRegister ==
  /\ \A t \in Threads :
       FcReturned(t, "DeRegister") => observer_[fcArg[t].c] = None
  /\ \A c \in Cryptors : fcHist[c].obs = None => observer_[c] = None
  /\ \A t \in Threads : pc[t] = "n_invoke" => local_observer[t] \notin stale[t]

\* An observer was registered and de-registered, no cryptor refers to it any
\* more, and a notification started afterwards is about to call what it copied:
\* nothing.
C13_Witness ==
  \E t \in Threads :
    /\ pc[t] = "n_invoke"
    /\ stale[t] # {}
    /\ local_observer[t] = None
    /\ \A o \in Observers : obs_refs[o] = 0

\* C14: a frame cryptor holds at most one observer: the argument of the most
\* recent registration when no de-registration followed it, none otherwise; an
\* observer that was replaced or de-registered is no longer referenced by the
\* cryptor.
C14_SingleObserver ==
  /\ \A c \in Cryptors : Alive(c) => observer_[c] = fcHist[c].obs
  /\ \A o \in Observers :
       obs_refs[o] = Cardinality({c \in Cryptors : observer_[c] = o})

\* A second registration has replaced the first observer, which the cryptor no
\* longer references.
C14_Witness ==
  \E t \in Threads :
    /\ FcReturned(t, "Register")
    /\ fcHist[fcArg[t].c].was = Observers
    /\ observer_[fcArg[t].c] = fcArg[t].o
    /\ \E o \in Observers \ {fcArg[t].o} : obs_refs[o] = 0

\* C15: the keyring given to a frame cryptor at construction stays alive as long
\* as that frame cryptor is alive, also after the application has released its
\* own reference to the keyring.
C15_KeyProviderOutlivesCryptor == \A c \in Cryptors : Alive(c) => kp_refs > 0

\* C16: SetSharedKey, SetKey, SetEnabled and SetKeyIndex return true for every
\* input and in every state (an empty key, an empty participant id and a negative
\* index included), and when they return the value they were given is the value
\* stored.
C16_MutatorsSucceed ==
  \A t \in Threads :
    /\ Returned(t, "SetSharedKey") =>
         /\ retBool[t] = TRUE
         /\ arg[t].i \in DOMAIN shared_keys_
         /\ shared_keys_[arg[t].i] = arg[t].k
    /\ Returned(t, "SetKey") =>
         /\ retBool[t] = TRUE
         /\ arg[t].p \in DOMAIN participant_keys_
         /\ arg[t].i \in DOMAIN participant_keys_[arg[t].p]
         /\ participant_keys_[arg[t].p][arg[t].i] = arg[t].k
    /\ FcReturned(t, "SetEnabled") =>
         retBool[t] = TRUE /\ enabled_[fcArg[t].c] = fcArg[t].b
    /\ FcReturned(t, "SetKeyIndex") =>
         retBool[t] = TRUE /\ key_index_[fcArg[t].c] = fcArg[t].i

\* An empty key is stored for the empty participant id at a negative index, and
\* SetKeyIndex has returned true for a negative index, which is the stored one.
C16_Witness ==
  /\ "" \in DOMAIN participant_keys_
  /\ -1 \in DOMAIN participant_keys_[""]
  /\ participant_keys_[""][-1] = << >>
  /\ \E t \in Threads :
       /\ FcReturned(t, "SetKeyIndex")
       /\ fcArg[t].i < 0
       /\ retBool[t] = TRUE
       /\ key_index_[fcArg[t].c] = fcArg[t].i

Lookups == {"ExportSharedKey", "RatchetSharedKey", "ExportKey", "RatchetKey"}

\* C17: a missing key is reported as an empty byte sequence and in no other way:
\* ExportSharedKey and RatchetSharedKey return empty for an index that was never
\* set, ExportKey and RatchetKey return empty when the slot was never set and no
\* shared key applies (shared-key mode off, or the index has no shared key).
C17_MissIsEmpty ==
  \A t \in Threads :
    /\ (Returned(t, "ExportSharedKey") \/ Returned(t, "RatchetSharedKey"))
         /\ arg[t].i \notin DOMAIN setSharedHist
       => retBytes[t] = << >>
    /\ (Returned(t, "ExportKey") \/ Returned(t, "RatchetKey"))
         /\ ArgSlot(t) \notin DOMAIN setKeyHist
         /\ (~shared_key_ \/ arg[t].i \notin DOMAIN setSharedHist)
       => retBytes[t] = << >>

\* No step of a lookup changes the keyring.
C17_LookupStep ==
  (\E t \in Threads : {op[t], op'[t]} \cap Lookups # {}) => UNCHANGED keyring

C17_MissingKeyIsEmpty == [](C17_MissIsEmpty) /\ [][C17_LookupStep]_vars

\* In shared-key mode, with a shared key stored at another index, ExportKey of a
\* slot that was never set at an index without shared key has returned empty.
C17_Witness ==
  \E t \in Threads :
    /\ Returned(t, "ExportKey")
    /\ shared_key_
    /\ ArgSlot(t) \notin DOMAIN setKeyHist
    /\ arg[t].i \notin DOMAIN setSharedHist
    /\ \E i \in DOMAIN setSharedHist : setSharedHist[i] # << >>
    /\ retBytes[t] = << >>

InCall(t) == pc[t] # "idle"

\* C18: under fair scheduling every keyring and frame cryptor operation
\* eventually returns, whatever the interleaving; in particular ExportKey and
\* RatchetKey on the fallback path, which call ExportSharedKey while they hold the
\* keyring's non-recursive mutex, do not deadlock.
C18_EveryCallReturns == \A t \in LiveThreads : InCall(t) ~> ~InCall(t)

\* ExportKey is on its fallback path, holding the keyring's mutex, while the
\* other thread waits for that mutex.
C18_Witness ==
  \E t, u \in LiveThreads :
    /\ op[t] \in {"ExportKey", "RatchetKey"}
    /\ pc[t] = "esk_find"
    /\ mutex_ = t
    /\ pc[u] \in {"sk_lock", "ssk_lock", "sst_lock", "ek_lock"}

Calling(o) == \E t \in Threads : o \in {op[t], op'[t]}

\* C19: the enabled flag, the key index and the observer are independent: no
\* step of SetEnabled changes key_index_ or observer_, no step of SetKeyIndex
\* changes enabled_ or observer_, no step of a registration or de-registration
\* changes enabled_ or key_index_, and the getters change none of the three.
C19_FrameStep ==
  /\ Calling("SetEnabled") => UNCHANGED <<key_index_, observer_>>
  /\ Calling("SetKeyIndex") => UNCHANGED <<enabled_, observer_>>
  /\ Calling("Register") \/ Calling("DeRegister") => UNCHANGED <<enabled_, key_index_>>
  /\ Calling("enabled") \/ Calling("key_index") =>
       UNCHANGED <<enabled_, key_index_, observer_>>

C19_FieldsIndependent == [][C19_FrameStep]_vars

\* SetEnabled(true) has returned on a cryptor whose key index is not the default
\* and which holds an observer: one of the combinations, kept by the call.
C19_Witness ==
  \E t \in Threads :
    /\ FcReturned(t, "SetEnabled")
    /\ enabled_[fcArg[t].c] = TRUE
    /\ key_index_[fcArg[t].c] = -1
    /\ observer_[fcArg[t].c] \in Observers

FcOps == {"SetEnabled", "enabled", "SetKeyIndex", "key_index", "Register", "DeRegister"}

\* C20: a call on one frame cryptor never changes enabled_, key_index_ or
\* observer_ of another frame cryptor, also when both were made with the same
\* keyring, and no frame cryptor call changes a key (or anything else) stored in
\* the keyring.
C20_IsolationStep ==
  \A t \in Threads :
    (op[t] \in FcOps \/ op'[t] \in FcOps) =>
      /\ \A d \in Cryptors \ {IF pc[t] = "idle" THEN fcArg'[t].c ELSE fcArg[t].c} :
           /\ enabled_'[d] = enabled_[d]
           /\ key_index_'[d] = key_index_[d]
           /\ observer_'[d] = observer_[d]
      /\ UNCHANGED keyring

C20_CryptorsIsolated == [][C20_IsolationStep]_vars

\* Two frame cryptors made with the same provisioned keyring: SetEnabled(true)
\* has returned on one while the other, whose key index was set before, is still
\* disabled, and the keyring holds the keys it held.
C20_Witness ==
  \E t \in Threads : \E d \in Cryptors \ {fcArg[t].c} :
    /\ FcReturned(t, "SetEnabled")
    /\ Alive(d)
    /\ enabled_[fcArg[t].c] = TRUE
    /\ enabled_[d] = FALSE
    /\ key_index_[d] = -1
    /\ shared_keys_ = SetSharedKeyStore(EmptyMap, 0, <<1>>)
    /\ participant_keys_ = SetKeyStore(EmptyMap, "alice", 0, <<2>>)

\* C21: SetSifTrailer(t) replaces the stored trailer with t.
C21_TrailerStored ==
  \A t \in Threads : Returned(t, "SetSifTrailer") => sif_trailer_ = arg[t].k

\* No step of SetSifTrailer changes shared_keys_, participant_keys_ or
\* shared_key_, so every ExportKey and ExportSharedKey yields the same before and
\* after it; no step of any other keyring method changes the trailer.
C21_TrailerStep ==
  /\ Calling("SetSifTrailer") =>
       /\ UNCHANGED <<shared_keys_, participant_keys_, shared_key_>>
       /\ \A p \in Participants, i \in Indices :
            /\ ExportKeyValue(participant_keys_', shared_keys_', shared_key_', p, i)
                 = ExportKeyValue(participant_keys_, shared_keys_, shared_key_, p, i)
            /\ ExportSharedKeyValue(shared_keys_', i) = ExportSharedKeyValue(shared_keys_, i)
  /\ ~Calling("SetSifTrailer") => UNCHANGED sif_trailer_

\* C21: SetSifTrailer replaces the trailer (last write wins) and touches nothing
\* else of the keyring; no key operation changes the trailer.
C21_TrailerIndependent == [](C21_TrailerStored) /\ [][C21_TrailerStep]_vars

\* SetSifTrailer has returned on a keyring that holds a participant key and a
\* shared key.
C21_Witness ==
  \E t \in Threads :
    /\ Returned(t, "SetSifTrailer")
    /\ sif_trailer_ = <<7>>
    /\ setKeyHist # EmptyMap
    /\ setSharedHist # EmptyMap

\* What a slot holds: <<key>> when it is provisioned, << >> when it is not.
SlotOf(pk, p, i) == IF p \in DOMAIN pk /\ i \in DOMAIN pk[p] THEN <<pk[p][i]>> ELSE << >>
SharedSlotOf(sk, i) == IF i \in DOMAIN sk THEN <<sk[i]>> ELSE << >>

\* C23: SetKey(p, i, k) changes only slot (p, i): every other participant slot
\* and every shared slot is the same before and after each of its steps;
\* SetSharedKey(i, k) changes only shared slot i and no participant slot.  So
\* ExportKey of a provisioned participant slot is unaffected by writes to other
\* slots.
C23_WriteStep ==
  \A t \in Threads :
    /\ op[t] = "SetKey" =>
         /\ shared_keys_' = shared_keys_
         /\ \A p \in Participants, i \in Indices :
              <<p, i>> # ArgSlot(t) =>
                /\ SlotOf(participant_keys_', p, i) = SlotOf(participant_keys_, p, i)
                /\ SlotOf(participant_keys_, p, i) # << >> =>
                     ExportKeyValue(participant_keys_', shared_keys_', shared_key_', p, i)
                       = ExportKeyValue(participant_keys_, shared_keys_, shared_key_, p, i)
    /\ op[t] = "SetSharedKey" =>
         /\ participant_keys_' = participant_keys_
         /\ \A i \in Indices \ {arg[t].i} :
              SharedSlotOf(shared_keys_', i) = SharedSlotOf(shared_keys_, i)
         /\ \A p \in Participants, i \in Indices :
              SlotOf(participant_keys_, p, i) # << >> =>
                ExportKeyValue(participant_keys_', shared_keys_', shared_key_', p, i)
                  = ExportKeyValue(participant_keys_, shared_keys_, shared_key_, p, i)

C23_OnlyOwnSlot == [][C23_WriteStep]_vars

\* SetKey has returned on a participant whose other slot holds a different key,
\* with a shared key stored as well.
C23_Witness ==
  \E t \in Threads : \E i \in Indices \ {arg[t].i} :
    /\ Returned(t, "SetKey")
    /\ SlotOf(participant_keys_, arg[t].p, i) \notin {<< >>, <<arg[t].k>>}
    /\ SlotOf(participant_keys_, arg[t].p, arg[t].i) = <<arg[t].k>>
    /\ shared_keys_ # EmptyMap

\* C24: a participant slot set to the empty key counts as provisioned: in
\* shared-key mode, with a non-empty shared key at index i, ExportKey(p, i) after
\* SetKey(p, i, empty) returns the empty sequence and not the shared key.
C24_EmptyKeyIsProvisioned ==
  \A t \in Threads :
    /\ Returned(t, "ExportKey")
    /\ shared_key_
    /\ ArgSlot(t) \in DOMAIN setKeyHist
    /\ setKeyHist[ArgSlot(t)] = << >>
    /\ arg[t].i \in DOMAIN setSharedHist
    /\ setSharedHist[arg[t].i] # << >>
    => retBytes[t] = << >>

\* ExportKey has returned empty for a slot set to the empty key while a non-empty
\* shared key is stored at the same index and shared-key mode is on.
C24_Witness ==
  \E t \in Threads :
    /\ Returned(t, "ExportKey")
    /\ shared_key_
    /\ SlotOf(participant_keys_, arg[t].p, arg[t].i) = << << >> >>
    /\ SharedSlotOf(shared_keys_, arg[t].i) \notin {<< >>, << << >> >>}
    /\ retBytes[t] = << >>

\* The keyring is in shared-key mode exactly when it was made with non-null
\* options whose shared_key is true.
C25_ModeFromOptions == shared_key_ = (options # << >> /\ options[1] = TRUE)

\* C25: the shared-key mode of a keyring is fixed at construction: true exactly
\* when non-null options with shared_key = true were passed (null options give
\* false), and no keyring operation, SetSharedKey included, changes it.
C25_ModeFixedAtConstruction ==
  [](C25_ModeFromOptions) /\ [][shared_key_' = shared_key_]_vars

\* A keyring made with null options: SetSharedKey has stored a non-empty key, and
\* ExportKey of an unset slot at that index has still returned empty.
C25_Witness ==
  \E t \in Threads :
    /\ options = << >>
    /\ Returned(t, "ExportKey")
    /\ ArgSlot(t) \notin DOMAIN setKeyHist
    /\ SharedSlotOf(shared_keys_, arg[t].i) \notin {<< >>, << << >> >>}
    /\ retBytes[t] = << >>

\* Every slot a setter has written is provisioned, and ExportKey of a participant
\* slot that was set returns that slot's key, never the shared key.
C26_SetSlotsProvisioned ==
  /\ \A sl \in DOMAIN setKeyHist : SlotOf(participant_keys_, sl[1], sl[2]) # << >>
  /\ \A i \in DOMAIN setSharedHist : SharedSlotOf(shared_keys_, i) # << >>
  /\ \A t \in Threads :
       Returned(t, "ExportKey") /\ ArgSlot(t) \in DOMAIN setKeyHist =>
         <<retBytes[t]>> = SlotOf(participant_keys_, arg[t].p, arg[t].i)

\* No step removes a slot or a participant's map.
C26_NoRemovalStep ==
  /\ DOMAIN participant_keys_ \subseteq DOMAIN participant_keys_'
  /\ DOMAIN shared_keys_ \subseteq DOMAIN shared_keys_'
  /\ \A p \in DOMAIN participant_keys_ :
       DOMAIN participant_keys_[p] \subseteq DOMAIN participant_keys_'[p]

\* C26: key slots are never removed: once SetKey(p, i, .) or SetSharedKey(i, .)
\* has been called the slot stays provisioned in every later state, the set of
\* provisioned slots only grows, and a participant slot that was set never falls
\* back to the shared key again.
C26_SlotsNeverRemoved == [](C26_SetSlotsProvisioned) /\ [][C26_NoRemovalStep]_vars

\* A shared slot that held another key has been overwritten with the empty key
\* and is still provisioned, next to a provisioned participant slot.
C26_Witness ==
  \E t \in Threads :
    /\ Returned(t, "SetSharedKey")
    /\ arg[t].k = << >>
    /\ <<"shared", arg[t].i>> \in overwritten
    /\ SharedSlotOf(shared_keys_, arg[t].i) = << << >> >>
    /\ setKeyHist # EmptyMap

\* C27: key rotation ordering: when the application always provisions a
\* non-empty key with SetKey(p, i, K) before it calls SetKeyIndex(i) on the
\* participant's cryptor, and index 0 is provisioned from the start, a pipeline
\* thread that reads idx = key_index() and then calls ExportKey(p, idx) never
\* obtains an empty key, whatever the interleaving with the application (its
\* lookup finds the participant's slot and never reaches the shared-key fallback).
C27_RotationNeverEmpty ==
  \A t \in PipelineThreads :
    /\ Returned(t, "ExportKey") => retBytes[t] # << >>
    /\ pc[t] # "esk_find"

\* The pipeline has exported the key of the rotated index -1 while the
\* application is already writing the next key.
C27_Witness ==
  \E t \in PipelineThreads :
    /\ Returned(t, "ExportKey")
    /\ arg[t].i = -1
    /\ retBytes[t] \in Keys \ {<< >>}
    /\ pc[AppThread] \in {"sk_lock", "sk_write"}
    /\ ~shared_key_

\* ===================================================== LocalAudioSource
MaxSinkCalls == 4
MaxSinkConcCalls == 3
SourceTypes == {"kMicrophone", "kCustom"}

\* What no LocalAudioSource method touches.
audioside == <<keyring, mutex_, arg, retBytes, retBool, histv, plan, kp_refs,
               cryptors, fcthread, options, wrapper>>

SinkInvoke(t, o, s) ==
  /\ pc[t] = "idle"
  /\ op' = [op EXCEPT ![t] = o]
  /\ sinkArg' = [sinkArg EXCEPT ![t] = s]
  /\ calls' = calls + 1

\* webrtc::MutexLock lock(&sink_lock_)
SinkAcquire(t) == sink_lock_ = NoThread /\ sink_lock_' = t
\* ~MutexLock
SinkRelease(t) == IF sink_lock_ = t THEN NoThread ELSE sink_lock_

\* Mutant: AddSink without the search for the sink.
AddSinkStoreAlways(q, s) == Append(q, s)

\* if (std::find(...) != sinks_.end()) return; sinks_.push_back(sink)
AddSinkStore(q, s) == IF s \in Range(q) THEN q ELSE Append(q, s)

\* sinks_.erase(std::remove(sinks_.begin(), sinks_.end(), sink), sinks_.end())
RemoveSinkStore(q, s) == SelectSeq(q, LAMBDA x : x # s)

CallAddSink(t, cap) ==
  /\ calls < cap
  /\ \E s \in Sinks : SinkInvoke(t, "AddSink", s)
  /\ pc' = [pc EXCEPT ![t] = "as_lock"]
  /\ UNCHANGED <<sinks_, sink_lock_, cursor, delivered, lastSinkOp, audioside>>

AddSinkLock(t) ==
  /\ pc[t] = "as_lock"
  /\ SinkAcquire(t)
  /\ pc' = [pc EXCEPT ![t] = "as_write"]
  /\ UNCHANGED <<sinks_, sinkArg, cursor, delivered, lastSinkOp, op, calls, audioside>>

AddSinkWrite(t) ==
  /\ pc[t] = "as_write"
  /\ sinks_' = AddSinkStore(sinks_, sinkArg[t])
  /\ lastSinkOp' = [lastSinkOp EXCEPT ![sinkArg[t]] = "AddSink"]
  /\ pc' = [pc EXCEPT ![t] = "sink_ret"]
  /\ UNCHANGED <<sink_lock_, sinkArg, cursor, delivered, op, calls, audioside>>

CallRemoveSink(t, cap) ==
  /\ calls < cap
  /\ \E s \in Sinks : SinkInvoke(t, "RemoveSink", s)
  /\ pc' = [pc EXCEPT ![t] = "rs_lock"]
  /\ UNCHANGED <<sinks_, sink_lock_, cursor, delivered, lastSinkOp, audioside>>

RemoveSinkLock(t) ==
  /\ pc[t] = "rs_lock"
  /\ SinkAcquire(t)
  /\ pc' = [pc EXCEPT ![t] = "rs_write"]
  /\ UNCHANGED <<sinks_, sinkArg, cursor, delivered, lastSinkOp, op, calls, audioside>>

RemoveSinkWrite(t) ==
  /\ pc[t] = "rs_write"
  /\ sinks_' = RemoveSinkStore(sinks_, sinkArg[t])
  /\ lastSinkOp' = [lastSinkOp EXCEPT ![sinkArg[t]] = "RemoveSink"]
  /\ pc' = [pc EXCEPT ![t] = "sink_ret"]
  /\ UNCHANGED <<sink_lock_, sinkArg, cursor, delivered, op, calls, audioside>>

\* RTCAudioSourceImpl::CaptureFrame: the frame goes to the custom source's
\* OnData only when the source is a custom one and there is data.
CaptureFrame(t, cap) ==
  /\ calls < cap
  /\ \E source_type_ \in SourceTypes, audio_data \in BOOLEAN :
       IF source_type_ # "kCustom" \/ ~audio_data
       THEN /\ SinkInvoke(t, "CaptureFrame", NoSink)
            /\ pc' = [pc EXCEPT ![t] = "sink_ret"]
       ELSE /\ SinkInvoke(t, "OnData", NoSink)
            /\ pc' = [pc EXCEPT ![t] = "od_lock"]
  /\ UNCHANGED <<sinks_, sink_lock_, cursor, delivered, lastSinkOp, audioside>>

\* Mutant: OnData walks the list without taking sink_lock_.
OnDataNoLock(t) ==
  /\ pc[t] = "od_lock"
  /\ cursor' = [cursor EXCEPT ![t] = 1]
  /\ pc' = [pc EXCEPT ![t] = "od_next"]
  /\ UNCHANGED <<sinks_, sink_lock_, sinkArg, delivered, lastSinkOp, op, calls, audioside>>

OnDataLock(t) ==
  /\ pc[t] = "od_lock"
  /\ SinkAcquire(t)
  /\ cursor' = [cursor EXCEPT ![t] = 1]
  /\ pc' = [pc EXCEPT ![t] = "od_next"]
  /\ UNCHANGED <<sinks_, sinkArg, delivered, lastSinkOp, op, calls, audioside>>

\* for (auto* sink : sinks_): the next sink is called, or the loop ends
OnDataNext(t) ==
  /\ pc[t] = "od_next"
  /\ IF cursor[t] <= Len(sinks_)
     THEN /\ sinkArg' = [sinkArg EXCEPT ![t] = sinks_[cursor[t]]]
          /\ delivered' = [delivered EXCEPT ![t][sinks_[cursor[t]]] = @ + 1]
          /\ pc' = [pc EXCEPT ![t] = "od_sink"]
     ELSE /\ pc' = [pc EXCEPT ![t] = "sink_ret"]
          /\ UNCHANGED <<sinkArg, delivered>>
  /\ UNCHANGED <<sinks_, sink_lock_, cursor, lastSinkOp, op, calls, audioside>>

\* sink->OnData(...) returns
OnDataSinkReturn(t) ==
  /\ pc[t] = "od_sink"
  /\ sinkArg' = [sinkArg EXCEPT ![t] = NoSink]
  /\ cursor' = [cursor EXCEPT ![t] = @ + 1]
  /\ pc' = [pc EXCEPT ![t] = "od_next"]
  /\ UNCHANGED <<sinks_, sink_lock_, delivered, lastSinkOp, op, calls, audioside>>

SinkReturn(t) ==
  /\ pc[t] = "sink_ret"
  /\ sink_lock_' = SinkRelease(t)
  /\ sinkArg' = [sinkArg EXCEPT ![t] = NoSink]
  /\ cursor' = [cursor EXCEPT ![t] = 0]
  /\ delivered' = [delivered EXCEPT ![t] = NoDelivery]
  /\ pc' = [pc EXCEPT ![t] = "idle"]
  /\ UNCHANGED <<sinks_, lastSinkOp, op, calls, audioside>>

SinkStep(t, cap) ==
  \/ CallAddSink(t, cap) \/ AddSinkLock(t) \/ AddSinkWrite(t)
  \/ CallRemoveSink(t, cap) \/ RemoveSinkLock(t) \/ RemoveSinkWrite(t)
  \/ CaptureFrame(t, cap) \/ OnDataLock(t) \/ OnDataNext(t) \/ OnDataSinkReturn(t)
  \/ SinkReturn(t)

\* One thread drives the source.
SinkNext == \E t \in SeqThreads : SinkStep(t, MaxSinkCalls)
SinkSpec == Init /\ [][SinkNext]_vars

\* Any thread drives the source.
SinkConcNext == \E t \in Threads : SinkStep(t, MaxSinkConcCalls)
SinkConcSpec == Init /\ [][SinkConcNext]_vars

\* The sinks whose last operation was AddSink.
Registered == {s \in Sinks : lastSinkOp[s] = "AddSink"}
\* Thread t is inside the loop of OnData.
Iterating(t) == pc[t] \in {"od_next", "od_sink"}
\* Thread t is inside the locked part of AddSink or RemoveSink.
Editing(t) == pc[t] \in {"as_write", "rs_write"}

\* C29: the sink list never holds a sink twice; it holds exactly the sinks
\* whose last operation was AddSink, so AddSink of a registered sink and
\* RemoveSink of an unregistered one change nothing; and an OnData call that
\* has ended its loop called each of these sinks once and no other sink.
C29_NoDuplicateSinks ==
  /\ Cardinality(Range(sinks_)) = Len(sinks_)
  /\ Range(sinks_) = Registered
  /\ \A t \in Threads :
       pc[t] = "sink_ret" /\ op[t] = "OnData" =>
         \A s \in Sinks : delivered[t][s] = IF s \in Registered THEN 1 ELSE 0

\* C29 witness: after a sink was added and another one removed, an OnData
\* call has reached the first once and the other not at all.
C29_Witness ==
  \E t \in Threads, s, r \in Sinks :
    /\ pc[t] = "sink_ret" /\ op[t] = "OnData"
    /\ lastSinkOp[s] = "AddSink" /\ delivered[t][s] = 1
    /\ lastSinkOp[r] = "RemoveSink" /\ delivered[t][r] = 0

\* C30: no OnData is calling a sink whose last operation was RemoveSink, and
\* while a thread is inside the loop of OnData it holds sink_lock_ and no other
\* thread is inside the locked part of AddSink or RemoveSink.
C30_DispatchUnderSinkLock ==
  \A t \in Threads :
    /\ pc[t] = "od_sink" => lastSinkOp[sinkArg[t]] # "RemoveSink"
    /\ Iterating(t) =>
         /\ sink_lock_ = t
         /\ \A u \in Threads \ {t} : ~Editing(u) /\ ~Iterating(u)

\* C30 witness: one thread's OnData is calling a sink while another thread
\* waits for the lock in RemoveSink of that sink.
C30_Witness ==
  \E t \in Threads, u \in Threads :
    /\ t # u
    /\ pc[t] = "od_sink"
    /\ pc[u] = "rs_lock" /\ sinkArg[u] = sinkArg[t]

\* ============================================ the wrapper's callback holders
MaxHolderCalls == 3

\* What SetCallbacks is called with: a table and the user_data that belongs
\* to it, or no table.
CallbackArgs == {[cb |-> "f1", ud |-> "u1"], [cb |-> "f2", ud |-> "u2"],
                 [cb |-> None, ud |-> "u1"], [cb |-> None, ud |-> None]}

\* What no callback holder touches.
wrapperside == <<keyring, mutex_, arg, retBytes, retBool, histv, plan, kp_refs,
                 cryptors, fcthread, options, audio>>

\* Thread t is between the call and the return of a SetCallbacks that has a
\* table.
Installing(t) ==
  /\ pc[t] \in {"sc_lock", "sc_write_cb", "sc_write_ud", "sc_unlock", "sc_sink", "sc_ret"}
  /\ cbArg[t].cb # None

\* std::lock_guard<std::mutex> lock(mutex_)
HolderAcquire(t) == cb_mutex_ = NoThread /\ cb_mutex_' = t
\* ~lock_guard
HolderRelease(t) == IF cb_mutex_ = t THEN NoThread ELSE cb_mutex_

\* SetCallbacks(callbacks, user_data), lrtc_logging_set_callback(severity,
\* callback, user_data) and lrtc_logging_remove_callback() are called; the
\* last is the call with no callback and no user_data.
SetCallbacksInvoke(t, a) ==
  /\ holder = "g_log_callback" /\ a.cb = None => a.ud = None
  /\ op' = [op EXCEPT ![t] = "SetCallbacks"]
  /\ cbArg' = [cbArg EXCEPT ![t] = a]
  /\ calls' = calls + 1
  /\ setCalls' = setCalls \cup {a}
  /\ cleared' = (cleared /\ a.cb = None)
  /\ silent' = IF a.cb = None
               THEN [silent EXCEPT ![t] = ~\E u \in Threads : Installing(u)]
               ELSE [u \in Threads |-> FALSE]
  /\ pc' = [pc EXCEPT ![t] = "sc_lock"]
  /\ UNCHANGED <<holder, cb_mutex_, callbacks_, user_data_, log_sink_, snapshot,
                 wrapperside>>

CallSetCallbacks(t, cap) ==
  /\ calls < cap
  /\ pc[t] = "idle"
  /\ \E a \in CallbackArgs : SetCallbacksInvoke(t, a)
  /\ UNCHANGED nested

\* The user's callback calls SetCallbacks of the holder that invoked it.
CallbackSetCallbacks(t, cap) ==
  /\ calls < cap
  /\ pc[t] = "cb_invoke" /\ nested[t] = "no"
  /\ \E a \in CallbackArgs : SetCallbacksInvoke(t, a)
  /\ nested' = [nested EXCEPT ![t] = "in"]

\* Mutant: SetCallbacks writes without taking the mutex.
SetCallbacksNoLock(t) ==
  /\ pc[t] = "sc_lock"
  /\ pc' = [pc EXCEPT ![t] = "sc_write_cb"]
  /\ UNCHANGED <<wrapper, op, calls, wrapperside>>

SetCallbacksLock(t) ==
  /\ pc[t] = "sc_lock"
  /\ HolderAcquire(t)
  /\ pc' = [pc EXCEPT ![t] = "sc_write_cb"]
  /\ UNCHANGED <<holder, callbacks_, user_data_, log_sink_, cbArg, snapshot, nested,
                 setCalls, cleared, silent, op, calls, wrapperside>>

\* callbacks_ = *callbacks, or memset(&callbacks_, 0, ...);
\* g_log_callback.callback = callback
SetCallbacksWriteCallbacks(t) ==
  /\ pc[t] = "sc_write_cb"
  /\ callbacks_' = cbArg[t].cb
  /\ pc' = [pc EXCEPT ![t] = "sc_write_ud"]
  /\ UNCHANGED <<holder, cb_mutex_, user_data_, log_sink_, cbArg, snapshot, nested,
                 setCalls, cleared, silent, op, calls, wrapperside>>

\* user_data_ = user_data; in the log functions the lock's block ends here
SetCallbacksWriteUserData(t) ==
  /\ pc[t] = "sc_write_ud"
  /\ user_data_' = cbArg[t].ud
  /\ pc' = [pc EXCEPT ![t] = IF holder = "g_log_callback" THEN "sc_unlock" ELSE "sc_ret"]
  /\ UNCHANGED <<holder, cb_mutex_, callbacks_, log_sink_, cbArg, snapshot, nested,
                 setCalls, cleared, silent, op, calls, wrapperside>>

LogUnlock(t) ==
  /\ pc[t] = "sc_unlock"
  /\ cb_mutex_' = HolderRelease(t)
  /\ pc' = [pc EXCEPT ![t] = "sc_sink"]
  /\ UNCHANGED <<holder, callbacks_, user_data_, log_sink_, cbArg, snapshot, nested,
                 setCalls, cleared, silent, op, calls, wrapperside>>

\* if (callback) setLogSink(severity, LrtcLogMessageHandler) else removeLogSink()
LogSetSink(t) ==
  /\ pc[t] = "sc_sink"
  /\ log_sink_' = (cbArg[t].cb # None)
  /\ pc' = [pc EXCEPT ![t] = "sc_ret"]
  /\ UNCHANGED <<holder, cb_mutex_, callbacks_, user_data_, cbArg, snapshot, nested,
                 setCalls, cleared, silent, op, calls, wrapperside>>

\* SetCallbacks returns, to the callback that called it when there is one.
SetCallbacksReturn(t) ==
  /\ pc[t] = "sc_ret"
  /\ cb_mutex_' = HolderRelease(t)
  /\ cleared' = IF cbArg[t].cb = None THEN silent[t] ELSE cleared
  /\ silent' = [silent EXCEPT ![t] = FALSE]
  /\ cbArg' = [cbArg EXCEPT ![t] = NoCallbacks]
  /\ IF nested[t] = "in"
     THEN /\ nested' = [nested EXCEPT ![t] = "done"]
          /\ op' = [op EXCEPT ![t] = "Dispatch"]
          /\ pc' = [pc EXCEPT ![t] = "cb_invoke"]
     ELSE /\ pc' = [pc EXCEPT ![t] = "idle"]
          /\ UNCHANGED <<nested, op>>
  /\ UNCHANGED <<holder, callbacks_, user_data_, log_sink_, snapshot, setCalls,
                 calls, wrapperside>>

\* An event reaches the holder: OnSignalingState, OnStateChange, OnMessage,
\* OnToneChange, OnData, OnFrame, or LrtcLogMessageHandler, which the logging
\* calls only while it is the log sink.
CallDispatch(t, cap) ==
  /\ calls < cap
  /\ pc[t] = "idle"
  /\ holder = "g_log_callback" => log_sink_
  /\ op' = [op EXCEPT ![t] = "Dispatch"]
  /\ calls' = calls + 1
  /\ silent' = [silent EXCEPT ![t] = cleared]
  /\ pc' = [pc EXCEPT ![t] = "d_lock"]
  /\ UNCHANGED <<holder, cb_mutex_, callbacks_, user_data_, log_sink_, cbArg, snapshot,
                 nested, setCalls, cleared, wrapperside>>

\* Mutant: the dispatch copies without taking the mutex.
DispatchNoLock(t) ==
  /\ pc[t] = "d_lock"
  /\ pc' = [pc EXCEPT ![t] = "d_copy_cb"]
  /\ UNCHANGED <<wrapper, op, calls, wrapperside>>

\* GetCallbacks(), or the block of OnData, OnFrame and LrtcLogMessageHandler
DispatchLock(t) ==
  /\ pc[t] = "d_lock"
  /\ HolderAcquire(t)
  /\ pc' = [pc EXCEPT ![t] = "d_copy_cb"]
  /\ UNCHANGED <<holder, callbacks_, user_data_, log_sink_, cbArg, snapshot, nested,
                 setCalls, cleared, silent, op, calls, wrapperside>>

\* callbacks = callbacks_
DispatchCopyCallbacks(t) ==
  /\ pc[t] = "d_copy_cb"
  /\ snapshot' = [snapshot EXCEPT ![t].cb = callbacks_]
  /\ pc' = [pc EXCEPT ![t] = "d_copy_ud"]
  /\ UNCHANGED <<holder, cb_mutex_, callbacks_, user_data_, log_sink_, cbArg, nested,
                 setCalls, cleared, silent, op, calls, wrapperside>>

\* user_data = user_data_
DispatchCopyUserData(t) ==
  /\ pc[t] = "d_copy_ud"
  /\ snapshot' = [snapshot EXCEPT ![t].ud = user_data_]
  /\ pc' = [pc EXCEPT ![t] = "d_unlock"]
  /\ UNCHANGED <<holder, cb_mutex_, callbacks_, user_data_, log_sink_, cbArg, nested,
                 setCalls, cleared, silent, op, calls, wrapperside>>

\* Mutant: the lock is held until the dispatch returns.
DispatchKeepLock(t) ==
  /\ pc[t] = "d_unlock"
  /\ pc' = [pc EXCEPT ![t] = "d_test"]
  /\ UNCHANGED <<wrapper, op, calls, wrapperside>>

\* the lock_guard's block, or GetCallbacks, ends
DispatchUnlock(t) ==
  /\ pc[t] = "d_unlock"
  /\ cb_mutex_' = HolderRelease(t)
  /\ pc' = [pc EXCEPT ![t] = "d_test"]
  /\ UNCHANGED <<holder, callbacks_, user_data_, log_sink_, cbArg, snapshot, nested,
                 setCalls, cleared, silent, op, calls, wrapperside>>

\* if (cb.callbacks.on_...) the callback is invoked; VideoSinkImpl::OnFrame
\* returns as well when the frame is null
DispatchTest(t) ==
  /\ pc[t] = "d_test"
  /\ \E frame \in BOOLEAN :
       pc' = [pc EXCEPT ![t] =
                IF snapshot[t].cb = None \/ (holder = "VideoSinkImpl" /\ ~frame)
                THEN "d_ret" ELSE "cb_invoke"]
  /\ UNCHANGED <<wrapper, op, calls, wrapperside>>

\* the user's callback returns
CallbackReturn(t) ==
  /\ pc[t] = "cb_invoke"
  /\ pc' = [pc EXCEPT ![t] = "d_ret"]
  /\ UNCHANGED <<wrapper, op, calls, wrapperside>>

DispatchReturn(t) ==
  /\ pc[t] = "d_ret"
  /\ cb_mutex_' = HolderRelease(t)
  /\ snapshot' = [snapshot EXCEPT ![t] = NoCallbacks]
  /\ nested' = [nested EXCEPT ![t] = "no"]
  /\ silent' = [silent EXCEPT ![t] = FALSE]
  /\ pc' = [pc EXCEPT ![t] = "idle"]
  /\ UNCHANGED <<holder, callbacks_, user_data_, log_sink_, cbArg, setCalls, cleared,
                 op, calls, wrapperside>>

HolderStep(t, cap) ==
  \/ CallSetCallbacks(t, cap) \/ CallbackSetCallbacks(t, cap)
  \/ SetCallbacksLock(t) \/ SetCallbacksWriteCallbacks(t)
  \/ SetCallbacksWriteUserData(t) \/ LogUnlock(t) \/ LogSetSink(t)
  \/ SetCallbacksReturn(t)
  \/ CallDispatch(t, cap) \/ DispatchLock(t) \/ DispatchCopyCallbacks(t)
  \/ DispatchCopyUserData(t) \/ DispatchUnlock(t) \/ DispatchTest(t)
  \/ CallbackReturn(t) \/ DispatchReturn(t)

\* Any thread sets the callbacks of a holder of any kind and dispatches its
\* events.  The keyring, which plays no part, is a per-participant one.
HolderInit ==
  /\ InitKeyring /\ ~shared_key_ /\ InitCryptors /\ plan = EmptyMap
  /\ options = <<shared_key_>> /\ InitAudio /\ InitWrapper(Holders)
HolderNext == \E t \in Threads : HolderStep(t, MaxHolderCalls)
HolderSpec == HolderInit /\ [][HolderNext]_vars

\* The statements a thread runs while it holds the holder's mutex.
LockedRegion == {"sc_write_cb", "sc_write_ud", "sc_unlock", "sc_ret",
                 "d_copy_cb", "d_copy_ud", "d_unlock"}

\* C22: a thread that is inside the user's callback, or that waits for the
\* holder's mutex in a SetCallbacks its callback made, does not hold that
\* mutex; and whoever holds it is at a statement of SetCallbacks or of the
\* snapshot, none of which waits or calls the user, so the waiting call
\* gets the mutex and completes.
C22_InvokeOutsideLock ==
  \A t \in Threads :
    /\ pc[t] \in {"cb_invoke", "d_test", "sc_lock"} => cb_mutex_ # t
    /\ cb_mutex_ = t => pc[t] \in LockedRegion

\* C22 witness: a callback has called SetCallbacks of its holder and the call
\* has returned to it.
C22_Witness ==
  \E t \in Threads :
    pc[t] = "cb_invoke" /\ nested[t] = "done" /\ cb_mutex_ = NoThread

\* C28: a callback is invoked with the user_data of the SetCallbacks call that
\* installed it, and never by a dispatch that started after a
\* SetCallbacks with a null table had returned, unless SetCallbacks was
\* called with a table again.
C28_TableAndUserDataTogether ==
  \A t \in Threads :
    pc[t] = "cb_invoke" =>
      /\ snapshot[t].cb # None
      /\ snapshot[t] \in setCalls
      /\ ~silent[t]

\* C28 witness: while one thread's dispatch invokes the callback of the
\* latest SetCallbacks, whose caller has not returned yet, an earlier call
\* had installed another callback.
C28_Witness ==
  \E t \in Threads, u \in Threads :
    /\ t # u
    /\ pc[t] = "cb_invoke"
    /\ pc[u] = "sc_ret" /\ cbArg[u] = snapshot[t]
    /\ \E a \in setCalls : a.cb # None /\ a # snapshot[t]
====
